---- MODULE Spec2Model ----
(***************************************************************************)
(* State-machine model of the voting backend of DAC25-GALA-VOTE: the       *)
(* SQLite store (categories, nominees, votes, system_settings, audit_log), *)
(* the uploads directory, the HTTP handlers of VotingController,           *)
(* CategoryController and FileUploadController, and the socket.io          *)
(* broadcast log.  A handler is an async function: every                   *)
(* awaited store statement is one atomic step, and the synchronous code    *)
(* that follows an await runs with the step that resumes it.  Handlers of  *)
(* different requests interleave at their awaits.                          *)
(***************************************************************************)
EXTENDS Integers, Sequences, FiniteSets, TLC

(***************************************************************************)
(* Bounds of the model.                                                    *)
(***************************************************************************)
MaxRequests == 2        \* requests issued in one behaviour


\* Socket connections made: socket.io gives every connection a new socket id.
MaxSockets == 3

(***************************************************************************)
(* Values.                                                                 *)
(***************************************************************************)
Slots == {1, 2}                          \* handlers that may be in flight together


\* The browsers, what localStorage may hold after a login (the token, and the
\* user data the page keeps next to it), and a browser that has not connected.
Clients == {1, 2}
Credentials ==
    {[token |-> "null", role |-> "user"],
     [token |-> "jwt(role: admin)", role |-> "admin"],
     [token |-> "jwt(role: user)", role |-> "admin"],
     [token |-> "jwt(role: admin, expired)", role |-> "admin"]}
NoSocket == 0
Closed ==
    [socket |-> NoSocket, storage |-> [token |-> "null", role |-> "user"], received |-> 0,
     categories |-> <<>>, loading |-> TRUE, page |-> {}, mounted |-> FALSE, asked |-> 0, replies |-> {}, voteStats |-> <<>>,
     read |-> <<>>, listening |-> FALSE, invoked |-> <<>>]
SessionIds == {"s1", "s2"}               \* client-generated session ids
AwardCategory == "lifetime-achievement"  \* seeded with is_award = 1
VoteCategory == "best-speaker"           \* seeded with is_award = 0
SeededCategories == <<VoteCategory, AwardCategory>>
UnknownCategory == "no-such-category"    \* an id no category row has at boot
NoRow == "<no row>"                      \* db.get resolved with undefined
SeededDeadline == "2025-07-10T23:59:59Z"
NotADate == "not-a-date"
Undefined == "<undefined>"               \* a field the request body does not carry
NoFile == <<>>                           \* no file part, and a NULL photo_url
NotAnImage == <<"notes", ".txt">>        \* a file the upload filter rejects
ImageExt == ".jpg"
UploadsUrl == "/uploads/nominees/"

\* A file name is its stem and its extension.  multer names an upload
\* 'nominee-' + Date.now() + '-' + random + ext: a name no earlier upload has;
\* the k-th request of a behaviour gets the k-th name.
UploadName(k) == <<"nominee-" \o ToString(k), ImageExt>>

\* `/uploads/nominees/${filename}`
PhotoUrl(filename) == <<UploadsUrl>> \o filename

\* path.basename(photo_url): what follows the last '/'.
Basename(url) == Tail(url)

\* photo_url LIKE '%' || pattern: the value ends with the pattern; NULL never matches.
Like(url, pattern) ==
    /\ Len(pattern) <= Len(url)
    /\ SubSeq(url, Len(url) - Len(pattern) + 1, Len(url)) = pattern

\* The instant each ISO-8601 string of the model denotes, on the model's clock,
\* and the clock's instants: before, at and after the seeded deadline.
IsoInstant == (SeededDeadline :> 1)
Instants == {0, 1, 2}

\* new Date(value): a valid instant, or an Invalid Date (NaN).
ParseDate(value) ==
    IF value \in DOMAIN IsoInstant
    THEN [valid |-> TRUE, t |-> IsoInstant[value]]
    ELSE [valid |-> FALSE, t |-> 0]

\* a > b on Date objects: the comparison of their time values; false with NaN.
DateAfter(a, b) == a.valid /\ b.valid /\ a.t > b.t

VARIABLES
    categories,   \* categories table: id -> row
    nominees,     \* nominees table: row i has id i (AUTOINCREMENT, never removed)
    votes,        \* votes table: set of rows
    voteSeq,      \* sqlite_sequence of votes: the last id handed out
    settings,     \* system_settings table: key -> value or NoRow
    audit_log,    \* audit_log table, in insertion order
    events,       \* what io.emit has broadcast, in order
    files,        \* the file names in the uploads/nominees directory
    now,          \* the server clock
    req,          \* the handler running in each slot, with its locals
    issued,       \* requests issued so far
    io,           \* the socket.io server: its connected sockets and the admin room
    wire,         \* socket id -> the events sent to that socket, in order
    joins,        \* the join-admin messages on their way to the server
    clients       \* each browser: its SocketService, localStorage and useCategories state

\* The real-time side: the hub and its clients.
hub == <<io, wire, joins, clients>>

vars ==
    <<categories, nominees, votes, voteSeq, settings, audit_log, events, files, now, req, issued,
      hub>>

\* What a handler can compare its outcome with: the store, the log lengths and
\* the uploads directory as they were when its request arrived.
Stored ==
    [categories |-> categories, nominees |-> nominees, votes |-> votes,
     audits |-> Len(audit_log), emitted |-> Len(events), files |-> files]

Idle ==
    [op |-> "none", pc |-> "idle", sessionId |-> "", categoryId |-> "",
     nomineeId |-> 0, existingVote |-> 0, status |-> 0,
     list |-> <<>>, idx |-> 0, data |-> {}, inactiveAtIssue |-> {},
     title |-> "", file |-> NoFile, old |-> NoFile,
     atIssue |-> [categories |-> <<>>, nominees |-> <<>>, votes |-> {},
                  audits |-> 0, emitted |-> 0, files |-> {}]]

Free(r) == req[r].pc \in {"idle", "done"}
InFlight == {r \in Slots : ~Free(r)}

\* A request is admitted into the lowest free slot; the answered requests are
\* forgotten then (a slot only names a handler invocation).
Admits(r) == Free(r) /\ \A q \in Slots : q < r => ~Free(q)
Admit(r, fresh) ==
    [q \in Slots |-> IF q = r THEN [fresh EXCEPT !.atIssue = Stored]
                     ELSE IF Free(q) THEN Idle ELSE req[q]]

\* res.status(code).json(...): the handler is over.
Respond(r, code) == [req[r] EXCEPT !.pc = "done", !.status = code]

(***************************************************************************)
(* The store: schema and statements.                                       *)
(***************************************************************************)
\* Columns of the votes table as createTables declares it.
VotesColumns ==
    {"id", "session_id", "category_id", "nominee_id", "ip_address", "user_agent", "created_at"}

\* Columns castVote's UPDATE statement assigns.
UpdateVoteAssigns == {"nominee_id", "updated_at"}

\* SELECT value FROM system_settings WHERE key = ?
GetSetting(key) == settings[key]

\* SELECT id FROM categories WHERE id = ? AND is_active = 1 (found or not)
ActiveCategory(id) == id \in DOMAIN categories /\ categories[id].is_active

\* The nominee lookup without its category_id = ? condition.
ActiveNomineeOf_AnyCategory(id, categoryId) ==
    id \in 1..Len(nominees) /\ nominees[id].is_active

\* SELECT id FROM nominees WHERE id = ? AND category_id = ? AND is_active = 1
ActiveNomineeOf(id, categoryId) ==
    /\ id \in 1..Len(nominees)
    /\ nominees[id].category_id = categoryId
    /\ nominees[id].is_active

\* SELECT id FROM votes WHERE session_id = ? AND category_id = ?  (0: no row)
SelectVoteId(sessionId, categoryId) ==
    LET rows == {v \in votes : v.session_id = sessionId /\ v.category_id = categoryId}
    IN  IF rows = {} THEN 0 ELSE (CHOOSE v \in rows : TRUE).id

\* The votes table declared without its UNIQUE(session_id, category_id) constraint.
UniqueViolation_NoConstraint(table, sessionId, categoryId) == FALSE

\* UNIQUE(session_id, category_id): does inserting this pair violate it?
UniqueViolation(table, sessionId, categoryId) ==
    \E v \in table : v.session_id = sessionId /\ v.category_id = categoryId

\* INSERT INTO votes (session_id, category_id, nominee_id, ...).  Foreign keys
\* are declared but never enforced (no PRAGMA foreign_keys), so the only
\* constraint that can reject the row is the UNIQUE one.
InsertVote(table, seq, sessionId, categoryId, nomineeId) ==
    IF UniqueViolation(table, sessionId, categoryId)
    THEN [error |-> TRUE, votes |-> table, seq |-> seq]
    ELSE [error |-> FALSE,
          votes |-> table \cup {[id |-> seq + 1, session_id |-> sessionId,
                                 category_id |-> categoryId, nominee_id |-> nomineeId]},
          seq |-> seq + 1]

\* UPDATE votes SET nominee_id = ?, updated_at = ? WHERE id = ?
\* The statement is rejected when it names a column the table lacks.
UpdateVote(table, id, nomineeId) ==
    IF ~(UpdateVoteAssigns \subseteq VotesColumns)
    THEN [error |-> TRUE, votes |-> table]
    ELSE [error |-> FALSE,
          votes |-> {IF v.id = id THEN [v EXCEPT !.nominee_id = nomineeId] ELSE v : v \in table}]

(***************************************************************************)
(* The vote gate of castVote.                                              *)
(***************************************************************************)
\* The flag test written as value === 'false'.
VotingDisabled_OnlyFalse(row) == row = "false"

\* !votingEnabled || votingEnabled.value !== 'true'
VotingDisabled(row) == row = NoRow \/ row # "true"

\* The deadline test written with >= for >.
DeadlinePassed_AtDeadline(row, t) ==
    row # NoRow /\ ParseDate(row).valid /\ t >= ParseDate(row).t

\* votingEndDate && new Date() > new Date(votingEndDate.value)
DeadlinePassed(row, t) ==
    row # NoRow /\ DateAfter([valid |-> TRUE, t |-> t], ParseDate(row))

(***************************************************************************)
(* Initial states.                                                         *)
(***************************************************************************)
\* The store after seedDefaultData, with what an earlier run of the server left
\* in the database file: two nominees in the voting category (the first with an
\* uploaded photo), one in the award category, and the vote of session s1 for
\* nominee 1.
SeededStore ==
    /\ categories = [c \in {VoteCategory, AwardCategory} |->
                        [is_active |-> TRUE, is_award |-> (c = AwardCategory),
                         title |-> IF c = VoteCategory THEN "Best Speaker"
                                   ELSE "Lifetime Achievement Award"]]
    /\ nominees = << [category_id |-> VoteCategory, is_active |-> TRUE,
                      name |-> "Alice", photo_url |-> PhotoUrl(UploadName(0))],
                     [category_id |-> VoteCategory, is_active |-> TRUE,
                      name |-> "Bob", photo_url |-> NoFile],
                     [category_id |-> AwardCategory, is_active |-> TRUE,
                      name |-> "Carol", photo_url |-> NoFile] >>
    /\ files = {UploadName(0)}
    /\ votes = {[id |-> 1, session_id |-> "s1", category_id |-> VoteCategory, nominee_id |-> 1]}
    /\ voteSeq = 1
    /\ audit_log = <<>>
    /\ events = <<>>
    /\ req = [r \in Slots |-> Idle]
    /\ issued = 0
    /\ io = [sockets |-> {}, adminRoom |-> {}, lastId |-> 0]
    /\ wire = <<>>
    /\ joins = {}
    /\ clients = [c \in Clients |-> Closed]

Init ==
    /\ SeededStore
    /\ settings = [k \in {"voting_enabled", "voting_end_date"} |->
                      IF k = "voting_enabled" THEN "true" ELSE SeededDeadline]
    /\ now = 0

\* seedDefaultData inserts a setting only when its key is missing, so the values
\* are whatever the operator left in the database file; a row removed by hand
\* stays missing until the next boot.
InitAnySettings ==
    /\ SeededStore
    /\ \E enabled \in {"true", "false", "TRUE", NoRow},
          deadline \in {SeededDeadline, NotADate, NoRow} :
          settings = [k \in {"voting_enabled", "voting_end_date"} |->
                         IF k = "voting_enabled" THEN enabled ELSE deadline]
    /\ now = 0

\* The seeded settings, and the same with voting switched off by the operator.
InitOpenOrClosed ==
    /\ SeededStore
    /\ \E enabled \in {"true", "false"} :
          settings = [k \in {"voting_enabled", "voting_end_date"} |->
                         IF k = "voting_enabled" THEN enabled ELSE SeededDeadline]
    /\ now = 0

(***************************************************************************)
(* The clock.  It is read in one place, new Date() in castVote's deadline  *)
(* check; `now` is the last reading, and a reading is any instant from the *)
(* last one on.                                                            *)
(***************************************************************************)
Readings == {t \in Instants : t >= now}

(***************************************************************************)
(* VotingController.castVote                                               *)
(***************************************************************************)
\* The payload of an event: the ids it names and, as data, the field it carries
\* besides them when the handler puts one in (the title of a category, the name
\* or the photo_url of a nominee).
Event(name, categoryId, nomineeId, sessionId) ==
    [name |-> name, categoryId |-> categoryId, nomineeId |-> nomineeId, sessionId |-> sessionId,
     data |-> Undefined]

\* io.emit(name, payload): socket.io sends the event to every socket connected
\* now, once, and keeps nothing for the sockets that connect later.
Emit(e) ==
    /\ events' = Append(events, e)
    /\ wire' = [s \in DOMAIN wire |-> [wire[s] EXCEPT !.sent = Append(@, e)]]

\* The request arrives: destructure the body and check the required fields.
CastVoteStart(r, sessionId, categoryId, nomineeId) ==
    /\ Admits(r)
    /\ issued < MaxRequests
    /\ issued' = issued + 1
    /\ LET fresh == [Idle EXCEPT !.op = "castVote", !.sessionId = sessionId,
                                 !.categoryId = categoryId, !.nomineeId = nomineeId]
       IN  req' = Admit(r,
                IF sessionId = "" \/ categoryId = "" \/ nomineeId = 0
                THEN [fresh EXCEPT !.pc = "done", !.status = 400]
                ELSE [fresh EXCEPT !.pc = "cv_enabled"])
    /\ UNCHANGED <<categories, nominees, votes, voteSeq, settings, audit_log, events, now, files, hub>>

\* await get(voting_enabled); 403 unless the value is 'true'.
CastVoteEnabled(r) ==
    /\ req[r].pc = "cv_enabled"
    /\ req' = [req EXCEPT ![r] =
            IF VotingDisabled(GetSetting("voting_enabled"))
            THEN Respond(r, 403)
            ELSE [req[r] EXCEPT !.pc = "cv_deadline"]]
    /\ UNCHANGED <<categories, nominees, votes, voteSeq, settings, audit_log, events, now, issued, files, hub>>

\* await get(voting_end_date); 403 when the clock is past it.
CastVoteDeadline(r) ==
    /\ req[r].pc = "cv_deadline"
    /\ \E t \in Readings :
          /\ now' = t
          /\ req' = [req EXCEPT ![r] =
                  IF DeadlinePassed(GetSetting("voting_end_date"), t)
                  THEN Respond(r, 403)
                  ELSE [req[r] EXCEPT !.pc = "cv_category"]]
    /\ UNCHANGED <<categories, nominees, votes, voteSeq, settings, audit_log, events, issued, files, hub>>

\* await get(active category); 404 when there is none.
CastVoteCategory(r) ==
    /\ req[r].pc = "cv_category"
    /\ req' = [req EXCEPT ![r] =
            IF ~ActiveCategory(req[r].categoryId)
            THEN Respond(r, 404)
            ELSE [req[r] EXCEPT !.pc = "cv_nominee"]]
    /\ UNCHANGED <<categories, nominees, votes, voteSeq, settings, audit_log, events, now, issued, files, hub>>

\* await get(active nominee of the category); 404 when there is none.
CastVoteNominee(r) ==
    /\ req[r].pc = "cv_nominee"
    /\ req' = [req EXCEPT ![r] =
            IF ~ActiveNomineeOf(req[r].nomineeId, req[r].categoryId)
            THEN Respond(r, 404)
            ELSE [req[r] EXCEPT !.pc = "cv_existing"]]
    /\ UNCHANGED <<categories, nominees, votes, voteSeq, settings, audit_log, events, now, issued, files, hub>>

\* await get(the session's vote in the category): existingVote.
CastVoteExisting(r) ==
    /\ req[r].pc = "cv_existing"
    /\ req' = [req EXCEPT ![r] =
            [req[r] EXCEPT !.pc = "cv_write",
                           !.existingVote = SelectVoteId(req[r].sessionId, req[r].categoryId)]]
    /\ UNCHANGED <<categories, nominees, votes, voteSeq, settings, audit_log, events, now, issued, files, hub>>

\* await run(UPDATE ...) when existingVote was found, else await run(INSERT ...).
\* A rejected statement throws into the catch block: 500.
CastVoteWrite(r) ==
    /\ req[r].pc = "cv_write"
    /\ LET done == IF req[r].existingVote # 0
                   THEN [seq |-> voteSeq] @@ UpdateVote(votes, req[r].existingVote, req[r].nomineeId)
                   ELSE InsertVote(votes, voteSeq, req[r].sessionId, req[r].categoryId,
                                   req[r].nomineeId)
       IN  /\ votes' = done.votes
           /\ voteSeq' = done.seq
           /\ req' = [req EXCEPT ![r] =
                   IF done.error THEN Respond(r, 500) ELSE [req[r] EXCEPT !.pc = "cv_emit"]]
    /\ UNCHANGED <<categories, nominees, settings, audit_log, events, now, issued, files, hub>>

\* The last step of castVote without its io.emit.
CastVoteEmit_AnswerOnly(r) ==
    /\ req[r].pc = "cv_emit"
    /\ req' = [req EXCEPT ![r] = Respond(r, 200)]
    /\ UNCHANGED <<categories, nominees, votes, voteSeq, settings, audit_log, events, now, issued,
                   files, hub>>

\* io.emit('vote-cast', ...); res.json({ success: true }).
CastVoteEmit(r) ==
    /\ req[r].pc = "cv_emit"
    /\ Emit(Event("vote-cast", req[r].categoryId, req[r].nomineeId,
                                      req[r].sessionId))
    /\ req' = [req EXCEPT ![r] = Respond(r, 200)]
    /\ UNCHANGED <<categories, nominees, votes, voteSeq, settings, audit_log, now, issued, files,
                   io, joins, clients>>

CastVoteStep(r) ==
    \/ CastVoteEnabled(r)
    \/ CastVoteDeadline(r)
    \/ CastVoteCategory(r)
    \/ CastVoteNominee(r)
    \/ CastVoteExisting(r)
    \/ CastVoteWrite(r)
    \/ CastVoteEmit(r)

(***************************************************************************)
(* db.logAudit: one row appended to audit_log.                             *)
(***************************************************************************)
AuditEntry(action, tableName, categoryId, nomineeId) ==
    [action |-> action, table_name |-> tableName, categoryId |-> categoryId,
     nomineeId |-> nomineeId]

(***************************************************************************)
(* CategoryController.deleteNominee                                        *)
(***************************************************************************)
\* SELECT * FROM nominees WHERE id = ? AND category_id = ?  (found or not)
NomineeOf(id, categoryId) ==
    id \in 1..Len(nominees) /\ nominees[id].category_id = categoryId

\* UPDATE nominees SET is_active = 0, updated_at = ? WHERE id = ?
SoftDeleteNominee(table, id) ==
    [i \in 1..Len(table) |-> IF i = id THEN [table[i] EXCEPT !.is_active = FALSE] ELSE table[i]]

\* DELETE FROM votes WHERE nominee_id = ?
DeleteVotesOf(table, nomineeId) == {v \in table : v.nominee_id # nomineeId}

DeleteNomineeStart(r, categoryId, nomineeId) ==
    /\ Admits(r)
    /\ issued < MaxRequests
    /\ issued' = issued + 1
    /\ req' = Admit(r, [Idle EXCEPT !.op = "deleteNominee", !.pc = "dn_get",
                                     !.categoryId = categoryId, !.nomineeId = nomineeId])
    /\ UNCHANGED <<categories, nominees, votes, voteSeq, settings, audit_log, events, now, files, hub>>

\* await get(currentNominee); 404 when there is none.
DeleteNomineeGet(r) ==
    /\ req[r].pc = "dn_get"
    /\ req' = [req EXCEPT ![r] =
            IF ~NomineeOf(req[r].nomineeId, req[r].categoryId)
            THEN Respond(r, 404)
            ELSE [req[r] EXCEPT !.pc = "dn_soft"]]
    /\ UNCHANGED <<categories, nominees, votes, voteSeq, settings, audit_log, events, now, issued, files, hub>>

\* await run(soft delete nominee)
DeleteNomineeSoft(r) ==
    /\ req[r].pc = "dn_soft"
    /\ nominees' = SoftDeleteNominee(nominees, req[r].nomineeId)
    /\ req' = [req EXCEPT ![r] = [req[r] EXCEPT !.pc = "dn_votes"]]
    /\ UNCHANGED <<categories, votes, voteSeq, settings, audit_log, events, now, issued, files, hub>>

\* await run(delete associated votes)
DeleteNomineeVotes(r) ==
    /\ req[r].pc = "dn_votes"
    /\ votes' = DeleteVotesOf(votes, req[r].nomineeId)
    /\ req' = [req EXCEPT ![r] = [req[r] EXCEPT !.pc = "dn_audit"]]
    /\ UNCHANGED <<categories, nominees, voteSeq, settings, audit_log, events, now, issued, files, hub>>

\* await logAudit('DELETE', 'nominees', nomineeId, ...)
DeleteNomineeAudit(r) ==
    /\ req[r].pc = "dn_audit"
    /\ audit_log' = Append(audit_log,
                           AuditEntry("DELETE", "nominees", req[r].categoryId, req[r].nomineeId))
    /\ req' = [req EXCEPT ![r] = [req[r] EXCEPT !.pc = "dn_emit"]]
    /\ UNCHANGED <<categories, nominees, votes, voteSeq, settings, events, now, issued, files, hub>>

\* io.emit('nominee-deleted', ...); res.json({ success: true }).
DeleteNomineeEmit(r) ==
    /\ req[r].pc = "dn_emit"
    /\ Emit(Event("nominee-deleted", req[r].categoryId, req[r].nomineeId, ""))
    /\ req' = [req EXCEPT ![r] = Respond(r, 200)]
    /\ UNCHANGED <<categories, nominees, votes, voteSeq, settings, audit_log, now, issued, files,
                   io, joins, clients>>

DeleteNomineeStep(r) ==
    \/ DeleteNomineeGet(r)
    \/ DeleteNomineeSoft(r)
    \/ DeleteNomineeVotes(r)
    \/ DeleteNomineeAudit(r)
    \/ DeleteNomineeEmit(r)

(***************************************************************************)
(* CategoryController.deleteCategory                                       *)
(***************************************************************************)
\* SELECT * FROM categories WHERE id = ?  (found or not)
CategoryExists(id) == id \in DOMAIN categories

\* A category delete that removes the row.
SoftDeleteCategory_Hard(table, id) == [c \in DOMAIN table \ {id} |-> table[c]]

\* UPDATE categories SET is_active = 0, updated_at = ? WHERE id = ?
SoftDeleteCategory(table, id) ==
    [c \in DOMAIN table |-> IF c = id THEN [table[c] EXCEPT !.is_active = FALSE] ELSE table[c]]

\* UPDATE nominees SET is_active = 0, updated_at = ? WHERE category_id = ?
SoftDeleteNomineesOf(table, categoryId) ==
    [i \in 1..Len(table) |->
        IF table[i].category_id = categoryId THEN [table[i] EXCEPT !.is_active = FALSE]
        ELSE table[i]]

DeleteCategoryStart(r, categoryId) ==
    /\ Admits(r)
    /\ issued < MaxRequests
    /\ issued' = issued + 1
    /\ req' = Admit(r, [Idle EXCEPT !.op = "deleteCategory", !.pc = "dc_get",
                                     !.categoryId = categoryId])
    /\ UNCHANGED <<categories, nominees, votes, voteSeq, settings, audit_log, events, now, files, hub>>

\* await get(currentCategory); 404 when there is none.
DeleteCategoryGet(r) ==
    /\ req[r].pc = "dc_get"
    /\ req' = [req EXCEPT ![r] =
            IF ~CategoryExists(req[r].categoryId)
            THEN Respond(r, 404)
            ELSE [req[r] EXCEPT !.pc = "dc_soft"]]
    /\ UNCHANGED <<categories, nominees, votes, voteSeq, settings, audit_log, events, now, issued, files, hub>>

\* await run(soft delete category)
DeleteCategorySoft(r) ==
    /\ req[r].pc = "dc_soft"
    /\ categories' = SoftDeleteCategory(categories, req[r].categoryId)
    /\ req' = [req EXCEPT ![r] = [req[r] EXCEPT !.pc = "dc_nominees"]]
    /\ UNCHANGED <<nominees, votes, voteSeq, settings, audit_log, events, now, issued, files, hub>>

\* await run(soft delete associated nominees)
DeleteCategoryNominees(r) ==
    /\ req[r].pc = "dc_nominees"
    /\ nominees' = SoftDeleteNomineesOf(nominees, req[r].categoryId)
    /\ req' = [req EXCEPT ![r] = [req[r] EXCEPT !.pc = "dc_audit"]]
    /\ UNCHANGED <<categories, votes, voteSeq, settings, audit_log, events, now, issued, files, hub>>

\* await logAudit('DELETE', 'categories', id, ...)
DeleteCategoryAudit(r) ==
    /\ req[r].pc = "dc_audit"
    /\ audit_log' = Append(audit_log, AuditEntry("DELETE", "categories", req[r].categoryId, 0))
    /\ req' = [req EXCEPT ![r] = [req[r] EXCEPT !.pc = "dc_emit"]]
    /\ UNCHANGED <<categories, nominees, votes, voteSeq, settings, events, now, issued, files, hub>>

\* io.emit('category-deleted', { id }); res.json({ success: true }).
DeleteCategoryEmit(r) ==
    /\ req[r].pc = "dc_emit"
    /\ Emit(Event("category-deleted", req[r].categoryId, 0, ""))
    /\ req' = [req EXCEPT ![r] = Respond(r, 200)]
    /\ UNCHANGED <<categories, nominees, votes, voteSeq, settings, audit_log, now, issued, files,
                   io, joins, clients>>

DeleteCategoryStep(r) ==
    \/ DeleteCategoryGet(r)
    \/ DeleteCategorySoft(r)
    \/ DeleteCategoryNominees(r)
    \/ DeleteCategoryAudit(r)
    \/ DeleteCategoryEmit(r)

(***************************************************************************)
(* CategoryController.getCategories                                        *)
(***************************************************************************)
\* The ids in display_order: a created category (display_order left to its
\* default, 0) comes before the seeded ones (1, 2, ...).
CategoriesInOrder == <<UnknownCategory>> \o SeededCategories

\* The category list without its WHERE c.is_active = 1.
SelectActiveCategories_All(table) ==
    SelectSeq(CategoriesInOrder, LAMBDA c : c \in DOMAIN table)

\* SELECT c.* ... FROM categories c ... WHERE c.is_active = 1 ORDER BY c.display_order
SelectActiveCategories(table) ==
    SelectSeq(CategoriesInOrder, LAMBDA c : c \in DOMAIN table /\ table[c].is_active)

\* SELECT * FROM nominees WHERE category_id = ? AND is_active = 1
SelectActiveNominees(table, categoryId) ==
    {[id |-> i, category_id |-> categoryId] :
        i \in {j \in 1..Len(table) : table[j].category_id = categoryId /\ table[j].is_active}}

GetCategoriesStart(r) ==
    /\ Admits(r)
    /\ issued < MaxRequests
    /\ issued' = issued + 1
    /\ req' = Admit(r, [Idle EXCEPT !.op = "getCategories", !.pc = "gc_list",
                    !.inactiveAtIssue = {c \in DOMAIN categories : ~categories[c].is_active}])
    /\ UNCHANGED <<categories, nominees, votes, voteSeq, settings, audit_log, events, now, files, hub>>

\* await all(active categories); with none listed the loop is skipped.
GetCategoriesList(r) ==
    /\ req[r].pc = "gc_list"
    /\ LET list == SelectActiveCategories(categories)
       IN  req' = [req EXCEPT ![r] =
                IF list = <<>>
                THEN [Respond(r, 200) EXCEPT !.list = list]
                ELSE [req[r] EXCEPT !.pc = "gc_nominees", !.list = list, !.idx = 1]]
    /\ UNCHANGED <<categories, nominees, votes, voteSeq, settings, audit_log, events, now, issued, files, hub>>

\* One turn of the loop: await all(active nominees of the category);
\* after the last turn, res.json({ success: true, data: categories }).
GetCategoriesNominees(r) ==
    /\ req[r].pc = "gc_nominees"
    /\ LET found == SelectActiveNominees(nominees, req[r].list[req[r].idx])
           next == [req[r] EXCEPT !.data = @ \cup found, !.idx = @ + 1]
       IN  req' = [req EXCEPT ![r] =
                IF req[r].idx = Len(req[r].list)
                THEN [next EXCEPT !.pc = "done", !.status = 200]
                ELSE next]
    /\ UNCHANGED <<categories, nominees, votes, voteSeq, settings, audit_log, events, now, issued, files, hub>>

GetCategoriesStep(r) ==
    \/ GetCategoriesList(r)
    \/ GetCategoriesNominees(r)

(***************************************************************************)
(* VotingController.getVoteStats: one statement, organised by category.    *)
(***************************************************************************)
\* FROM categories c ... WHERE c.is_active = 1 AND c.is_award = 0
StatsCategories(table) ==
    {c \in DOMAIN table : table[c].is_active /\ ~table[c].is_award}

\* LEFT JOIN nominees n ON c.id = n.category_id AND n.is_active = 1
StatsNominees(categoryId) ==
    {i \in 1..Len(nominees) : nominees[i].category_id = categoryId /\ nominees[i].is_active}

\* LEFT JOIN votes v ON n.id = v.nominee_id ... COUNT(v.id)
VoteCount(nomineeId) == Cardinality({v \in votes : v.nominee_id = nomineeId})

\* organizedStats: category -> nominee -> vote_count
GetVoteStats ==
    [c \in StatsCategories(categories) |-> [n \in StatsNominees(c) |-> VoteCount(n)]]

(***************************************************************************)
(* CategoryController.createCategory                                       *)
(***************************************************************************)
\* An UPDATE that also sets is_active = 1.
UpdateCategoryRow_Reactivates(table, id, title) ==
    [c \in DOMAIN table |->
        IF c = id
        THEN [table[c] EXCEPT !.is_active = TRUE,
                              !.title = IF title # Undefined THEN title ELSE @]
        ELSE table[c]]

\* UPDATE categories SET <the fields the body carries>, updated_at = ? WHERE id = ?
\* Of the optional fields the request carries the title or none.
UpdateCategoryRow(table, id, title) ==
    [c \in DOMAIN table |->
        IF c = id /\ title # Undefined THEN [table[c] EXCEPT !.title = title] ELSE table[c]]

\* INSERT INTO categories (id, title, description, icon, is_award, display_order).
\* id is the PRIMARY KEY: the statement is rejected when a row has it.  The
\* request leaves is_award to its default.
InsertCategory(table, id, title) ==
    IF id \in DOMAIN table
    THEN [error |-> TRUE, categories |-> table]
    ELSE [error |-> FALSE,
          categories |-> [c \in DOMAIN table \cup {id} |->
                             IF c = id
                             THEN [is_active |-> TRUE, is_award |-> FALSE, title |-> title]
                             ELSE table[c]]]

\* The request arrives: destructure the body and check the required fields.
CreateCategoryStart(r, id, title, description, icon) ==
    /\ Admits(r)
    /\ issued < MaxRequests
    /\ issued' = issued + 1
    /\ LET fresh == [Idle EXCEPT !.op = "createCategory", !.categoryId = id, !.title = title]
       IN  req' = Admit(r,
                IF id = "" \/ title = "" \/ description = "" \/ icon = ""
                THEN [fresh EXCEPT !.pc = "done", !.status = 400]
                ELSE [fresh EXCEPT !.pc = "cc_get"])
    /\ UNCHANGED <<categories, nominees, votes, voteSeq, settings, audit_log, events, now, files, hub>>

\* The lookup of a handler that writes the title before it answers 409.
CreateCategoryGet_WriteFirst(r) ==
    /\ req[r].pc = "cc_get"
    /\ categories' = UpdateCategoryRow(categories, req[r].categoryId, req[r].title)
    /\ req' = [req EXCEPT ![r] =
            IF CategoryExists(req[r].categoryId)
            THEN Respond(r, 409)
            ELSE [req[r] EXCEPT !.pc = "cc_insert"]]
    /\ UNCHANGED <<nominees, votes, voteSeq, settings, audit_log, events, now, issued, files, hub>>

\* await get(existing); 409 when a row has the id.
CreateCategoryGet(r) ==
    /\ req[r].pc = "cc_get"
    /\ req' = [req EXCEPT ![r] =
            IF CategoryExists(req[r].categoryId)
            THEN Respond(r, 409)
            ELSE [req[r] EXCEPT !.pc = "cc_insert"]]
    /\ UNCHANGED <<categories, nominees, votes, voteSeq, settings, audit_log, events, now, issued, files, hub>>

\* await run(INSERT ...).  A rejected statement throws into the catch block: 500.
CreateCategoryInsert(r) ==
    /\ req[r].pc = "cc_insert"
    /\ LET done == InsertCategory(categories, req[r].categoryId, req[r].title)
       IN  /\ categories' = done.categories
           /\ req' = [req EXCEPT ![r] =
                   IF done.error THEN Respond(r, 500) ELSE [req[r] EXCEPT !.pc = "cc_audit"]]
    /\ UNCHANGED <<nominees, votes, voteSeq, settings, audit_log, events, now, issued, files, hub>>

\* await logAudit('CREATE', 'categories', id, ...)
CreateCategoryAudit(r) ==
    /\ req[r].pc = "cc_audit"
    /\ audit_log' = Append(audit_log, AuditEntry("CREATE", "categories", req[r].categoryId, 0))
    /\ req' = [req EXCEPT ![r] = [req[r] EXCEPT !.pc = "cc_emit"]]
    /\ UNCHANGED <<categories, nominees, votes, voteSeq, settings, events, now, issued, files, hub>>

\* The handler's last step without its io.emit.
CreateCategoryEmit_Silent(r) ==
    /\ req[r].pc = "cc_emit"
    /\ req' = [req EXCEPT ![r] = Respond(r, 201)]
    /\ UNCHANGED <<categories, nominees, votes, voteSeq, settings, audit_log, events, now, issued,
                   files, hub>>

\* io.emit('category-created', { id, ... }); res.status(201).json(...).
CreateCategoryEmit(r) ==
    /\ req[r].pc = "cc_emit"
    /\ Emit([Event("category-created", req[r].categoryId, 0, "") EXCEPT !.data = req[r].title])
    /\ req' = [req EXCEPT ![r] = Respond(r, 201)]
    /\ UNCHANGED <<categories, nominees, votes, voteSeq, settings, audit_log, now, issued, files,
                   io, joins, clients>>

CreateCategoryStep(r) ==
    \/ CreateCategoryGet(r)
    \/ CreateCategoryInsert(r)
    \/ CreateCategoryAudit(r)
    \/ CreateCategoryEmit(r)

(***************************************************************************)
(* CategoryController.updateCategory                                       *)
(***************************************************************************)
UpdateCategoryStart(r, id, title) ==
    /\ Admits(r)
    /\ issued < MaxRequests
    /\ issued' = issued + 1
    /\ req' = Admit(r, [Idle EXCEPT !.op = "updateCategory", !.pc = "uc_get",
                                     !.categoryId = id, !.title = title])
    /\ UNCHANGED <<categories, nominees, votes, voteSeq, settings, audit_log, events, now, files, hub>>

\* The lookup of a handler that goes to its logAudit before its UPDATE.
UpdateCategoryGet_AuditFirst(r) ==
    /\ req[r].pc = "uc_get"
    /\ req' = [req EXCEPT ![r] =
            IF ~CategoryExists(req[r].categoryId)
            THEN Respond(r, 404)
            ELSE [req[r] EXCEPT !.pc = "uc_audit"]]
    /\ UNCHANGED <<categories, nominees, votes, voteSeq, settings, audit_log, events, now, issued,
                   files, hub>>

\* await get(currentCategory); 404 when there is none.
UpdateCategoryGet(r) ==
    /\ req[r].pc = "uc_get"
    /\ req' = [req EXCEPT ![r] =
            IF ~CategoryExists(req[r].categoryId)
            THEN Respond(r, 404)
            ELSE [req[r] EXCEPT !.pc = "uc_update"]]
    /\ UNCHANGED <<categories, nominees, votes, voteSeq, settings, audit_log, events, now, issued, files, hub>>

\* await run(UPDATE categories SET ...)
UpdateCategoryUpdate(r) ==
    /\ req[r].pc = "uc_update"
    /\ categories' = UpdateCategoryRow(categories, req[r].categoryId, req[r].title)
    /\ req' = [req EXCEPT ![r] = [req[r] EXCEPT !.pc = "uc_audit"]]
    /\ UNCHANGED <<nominees, votes, voteSeq, settings, audit_log, events, now, issued, files, hub>>

\* await logAudit('UPDATE', 'categories', id, ...)
UpdateCategoryAudit(r) ==
    /\ req[r].pc = "uc_audit"
    /\ audit_log' = Append(audit_log, AuditEntry("UPDATE", "categories", req[r].categoryId, 0))
    /\ req' = [req EXCEPT ![r] = [req[r] EXCEPT !.pc = "uc_emit"]]
    /\ UNCHANGED <<categories, nominees, votes, voteSeq, settings, events, now, issued, files, hub>>

\* io.emit('category-updated', { id, ...updateData }); res.json({ success: true }).
UpdateCategoryEmit(r) ==
    /\ req[r].pc = "uc_emit"
    /\ Emit([Event("category-updated", req[r].categoryId, 0, "") EXCEPT !.data = req[r].title])
    /\ req' = [req EXCEPT ![r] = Respond(r, 200)]
    /\ UNCHANGED <<categories, nominees, votes, voteSeq, settings, audit_log, now, issued, files,
                   io, joins, clients>>

UpdateCategoryStep(r) ==
    \/ UpdateCategoryGet(r)
    \/ UpdateCategoryUpdate(r)
    \/ UpdateCategoryAudit(r)
    \/ UpdateCategoryEmit(r)

(***************************************************************************)
(* CategoryController.addNominee                                           *)
(***************************************************************************)
\* What the promisified db.run resolves with.  sqlite3 calls run's callback
\* with the error alone and hands lastID over as `this`, which promisify drops.
RunResult == Undefined

\* INSERT INTO nominees (category_id, name, description, display_order)
InsertNominee(table, categoryId, name) ==
    Append(table, [category_id |-> categoryId, is_active |-> TRUE, name |-> name,
                   photo_url |-> NoFile])

\* The request arrives: 400 when the body has no name.
AddNomineeStart(r, categoryId, name) ==
    /\ Admits(r)
    /\ issued < MaxRequests
    /\ issued' = issued + 1
    /\ LET fresh == [Idle EXCEPT !.op = "addNominee", !.categoryId = categoryId, !.title = name]
       IN  req' = Admit(r,
                IF name = "" \/ name = Undefined
                THEN [fresh EXCEPT !.pc = "done", !.status = 400]
                ELSE [fresh EXCEPT !.pc = "an_get"])
    /\ UNCHANGED <<categories, nominees, votes, voteSeq, settings, audit_log, events, now, files, hub>>

\* await get(active category); 404 when there is none.
AddNomineeGet(r) ==
    /\ req[r].pc = "an_get"
    /\ req' = [req EXCEPT ![r] =
            IF ~ActiveCategory(req[r].categoryId)
            THEN Respond(r, 404)
            ELSE [req[r] EXCEPT !.pc = "an_insert"]]
    /\ UNCHANGED <<categories, nominees, votes, voteSeq, settings, audit_log, events, now, issued, files, hub>>

\* const result = await run(INSERT ...); const nomineeId = result.lastID;
\* Reading lastID off undefined throws a TypeError into the catch block: 500.
\* The audit write, the emit of 'nominee-added' and the 201 that follow in the
\* source are then never reached.
AddNomineeInsert(r) ==
    /\ req[r].pc = "an_insert"
    /\ RunResult = Undefined
    /\ nominees' = InsertNominee(nominees, req[r].categoryId, req[r].title)
    /\ req' = [req EXCEPT ![r] = Respond(r, 500)]
    /\ UNCHANGED <<categories, votes, voteSeq, settings, audit_log, events, now, issued, files, hub>>

AddNomineeStep(r) ==
    \/ AddNomineeGet(r)
    \/ AddNomineeInsert(r)

(***************************************************************************)
(* CategoryController.updateNominee                                        *)
(***************************************************************************)
\* An UPDATE of a nominee that also sets is_active = 1.
UpdateNomineeRow_Restores(table, id, name) ==
    [i \in 1..Len(table) |->
        IF i = id
        THEN [table[i] EXCEPT !.is_active = TRUE, !.name = IF name # Undefined THEN name ELSE @]
        ELSE table[i]]

\* UPDATE nominees SET <the fields the body carries>, updated_at = ? WHERE id = ?
\* Of the optional fields the request carries the name or none.
UpdateNomineeRow(table, id, name) ==
    [i \in 1..Len(table) |->
        IF i = id /\ name # Undefined THEN [table[i] EXCEPT !.name = name] ELSE table[i]]

UpdateNomineeStart(r, categoryId, nomineeId, name) ==
    /\ Admits(r)
    /\ issued < MaxRequests
    /\ issued' = issued + 1
    /\ req' = Admit(r, [Idle EXCEPT !.op = "updateNominee", !.pc = "un_get",
                                     !.categoryId = categoryId, !.nomineeId = nomineeId,
                                     !.title = name])
    /\ UNCHANGED <<categories, nominees, votes, voteSeq, settings, audit_log, events, now, files, hub>>

\* await get(currentNominee); 404 when there is none.
UpdateNomineeGet(r) ==
    /\ req[r].pc = "un_get"
    /\ req' = [req EXCEPT ![r] =
            IF ~NomineeOf(req[r].nomineeId, req[r].categoryId)
            THEN Respond(r, 404)
            ELSE [req[r] EXCEPT !.pc = "un_update"]]
    /\ UNCHANGED <<categories, nominees, votes, voteSeq, settings, audit_log, events, now, issued, files, hub>>

\* await run(UPDATE nominees SET ...)
UpdateNomineeUpdate(r) ==
    /\ req[r].pc = "un_update"
    /\ nominees' = UpdateNomineeRow(nominees, req[r].nomineeId, req[r].title)
    /\ req' = [req EXCEPT ![r] = [req[r] EXCEPT !.pc = "un_audit"]]
    /\ UNCHANGED <<categories, votes, voteSeq, settings, audit_log, events, now, issued, files, hub>>

\* await logAudit('UPDATE', 'nominees', nomineeId, ...)
UpdateNomineeAudit(r) ==
    /\ req[r].pc = "un_audit"
    /\ audit_log' = Append(audit_log,
                           AuditEntry("UPDATE", "nominees", req[r].categoryId, req[r].nomineeId))
    /\ req' = [req EXCEPT ![r] = [req[r] EXCEPT !.pc = "un_emit"]]
    /\ UNCHANGED <<categories, nominees, votes, voteSeq, settings, events, now, issued, files, hub>>

\* io.emit('nominee-updated', { id, category_id, ... }); res.json({ success: true }).
UpdateNomineeEmit(r) ==
    /\ req[r].pc = "un_emit"
    /\ Emit([Event("nominee-updated", req[r].categoryId, req[r].nomineeId, "")
                EXCEPT !.data = req[r].title])
    /\ req' = [req EXCEPT ![r] = Respond(r, 200)]
    /\ UNCHANGED <<categories, nominees, votes, voteSeq, settings, audit_log, now, issued, files,
                   io, joins, clients>>

UpdateNomineeStep(r) ==
    \/ UpdateNomineeGet(r)
    \/ UpdateNomineeUpdate(r)
    \/ UpdateNomineeAudit(r)
    \/ UpdateNomineeEmit(r)

(***************************************************************************)
(* FileUploadController.uploadNomineePhoto                                 *)
(***************************************************************************)
\* SELECT * FROM nominees WHERE id = ? AND is_active = 1  (found or not)
ActiveNominee(id) == id \in 1..Len(nominees) /\ nominees[id].is_active

\* UPDATE nominees SET photo_url = ?, updated_at = ? WHERE id = ?
SetPhotoUrl(table, id, url) ==
    [i \in 1..Len(table) |-> IF i = id THEN [table[i] EXCEPT !.photo_url = url] ELSE table[i]]

\* fs.unlink(path): the file is gone afterwards; it throws when there was none.
Unlink(dir, name) == [error |-> name \notin dir, files |-> dir \ {name}]

\* The request arrives and multer takes the upload: 400 when the filter rejects
\* the file or the request has no file part; else the file is on disk under a
\* generated name, and a request without nomineeId goes on to remove it.
UploadNomineePhotoStart(r, nomineeId, file) ==
    /\ Admits(r)
    /\ issued < MaxRequests
    /\ issued' = issued + 1
    /\ LET stored == UploadName(issued + 1)
           fresh == [Idle EXCEPT !.op = "uploadNomineePhoto", !.nomineeId = nomineeId]
       IN  IF file = NotAnImage \/ file = NoFile
           THEN /\ req' = Admit(r, [fresh EXCEPT !.pc = "done", !.status = 400])
                /\ files' = files
           ELSE /\ req' = Admit(r, [fresh EXCEPT !.file = stored,
                                        !.pc = IF nomineeId = 0 THEN "up_noid" ELSE "up_get"])
                /\ files' = files \cup {stored}
    /\ UNCHANGED <<categories, nominees, votes, voteSeq, settings, audit_log, events, now, hub>>

\* await fs.unlink(req.file.path), then 400 (no nomineeId) or 404 (no nominee).
\* An unlink that throws lands in the catch block, which tries once more: 500.
UploadNomineePhotoDiscard(r) ==
    /\ req[r].pc \in {"up_noid", "up_gone"}
    /\ LET gone == Unlink(files, req[r].file)
       IN  /\ files' = gone.files
           /\ req' = [req EXCEPT ![r] =
                   IF gone.error THEN Respond(r, 500)
                   ELSE Respond(r, IF req[r].pc = "up_noid" THEN 400 ELSE 404)]
    /\ UNCHANGED <<categories, nominees, votes, voteSeq, settings, audit_log, events, now, issued, hub>>

\* await get(active nominee): on to the clean-up and 404 when there is none,
\* to the removal of the old photo when the row has one.
UploadNomineePhotoGet(r) ==
    /\ req[r].pc = "up_get"
    /\ req' = [req EXCEPT ![r] =
            IF ~ActiveNominee(req[r].nomineeId)
            THEN [req[r] EXCEPT !.pc = "up_gone"]
            ELSE [req[r] EXCEPT !.old = nominees[req[r].nomineeId].photo_url,
                                !.pc = IF nominees[req[r].nomineeId].photo_url # NoFile
                                       THEN "up_old" ELSE "up_update"]]
    /\ UNCHANGED <<categories, nominees, votes, voteSeq, settings, audit_log, events, now, issued, files, hub>>

\* await fs.unlink(oldPhotoPath), its error ignored.
UploadNomineePhotoOld(r) ==
    /\ req[r].pc = "up_old"
    /\ files' = Unlink(files, Basename(req[r].old)).files
    /\ req' = [req EXCEPT ![r] = [req[r] EXCEPT !.pc = "up_update"]]
    /\ UNCHANGED <<categories, nominees, votes, voteSeq, settings, audit_log, events, now, issued, hub>>

\* await run(UPDATE nominees SET photo_url = ?)
UploadNomineePhotoUpdate(r) ==
    /\ req[r].pc = "up_update"
    /\ nominees' = SetPhotoUrl(nominees, req[r].nomineeId, PhotoUrl(req[r].file))
    /\ req' = [req EXCEPT ![r] = [req[r] EXCEPT !.pc = "up_audit"]]
    /\ UNCHANGED <<categories, votes, voteSeq, settings, audit_log, events, now, issued, files, hub>>

\* await logAudit('PHOTO_UPLOAD', 'nominees', nomineeId, ...)
UploadNomineePhotoAudit(r) ==
    /\ req[r].pc = "up_audit"
    /\ audit_log' = Append(audit_log, AuditEntry("PHOTO_UPLOAD", "nominees", "", req[r].nomineeId))
    /\ req' = [req EXCEPT ![r] = [req[r] EXCEPT !.pc = "up_emit"]]
    /\ UNCHANGED <<categories, nominees, votes, voteSeq, settings, events, now, issued, files, hub>>

\* io.emit('nominee-photo-updated', { nominee_id, photo_url }); res.json({ success: true }).
UploadNomineePhotoEmit(r) ==
    /\ req[r].pc = "up_emit"
    /\ Emit([Event("nominee-photo-updated", "", req[r].nomineeId, "")
                EXCEPT !.data = PhotoUrl(req[r].file)])
    /\ req' = [req EXCEPT ![r] = Respond(r, 200)]
    /\ UNCHANGED <<categories, nominees, votes, voteSeq, settings, audit_log, now, issued, files,
                   io, joins, clients>>

UploadNomineePhotoStep(r) ==
    \/ UploadNomineePhotoDiscard(r)
    \/ UploadNomineePhotoGet(r)
    \/ UploadNomineePhotoOld(r)
    \/ UploadNomineePhotoUpdate(r)
    \/ UploadNomineePhotoAudit(r)
    \/ UploadNomineePhotoEmit(r)

(***************************************************************************)
(* FileUploadController.deleteNomineePhoto                                 *)
(***************************************************************************)
\* SELECT * FROM nominees WHERE photo_url LIKE ? AND is_active = 1: the first
\* such row in rowid order (0: no row).
SelectPhotoOwner(table, pattern) ==
    LET rows == {i \in 1..Len(table) : table[i].is_active /\ Like(table[i].photo_url, pattern)}
    IN  IF rows = {} THEN 0 ELSE CHOOSE i \in rows : \A j \in rows : i <= j

DeleteNomineePhotoStart(r, filename) ==
    /\ Admits(r)
    /\ issued < MaxRequests
    /\ issued' = issued + 1
    /\ req' = Admit(r, [Idle EXCEPT !.op = "deleteNomineePhoto", !.pc = "dp_get",
                                     !.file = filename])
    /\ UNCHANGED <<categories, nominees, votes, voteSeq, settings, audit_log, events, now, files, hub>>

\* await get(nominee with this photo); 404 when there is none.
DeleteNomineePhotoGet(r) ==
    /\ req[r].pc = "dp_get"
    /\ LET id == SelectPhotoOwner(nominees, req[r].file)
       IN  req' = [req EXCEPT ![r] =
                IF id = 0
                THEN Respond(r, 404)
                ELSE [req[r] EXCEPT !.pc = "dp_unlink", !.nomineeId = id,
                                    !.old = nominees[id].photo_url]]
    /\ UNCHANGED <<categories, nominees, votes, voteSeq, settings, audit_log, events, now, issued, files, hub>>

\* await fs.unlink(filePath), its error logged and ignored.
DeleteNomineePhotoUnlink(r) ==
    /\ req[r].pc = "dp_unlink"
    /\ files' = Unlink(files, req[r].file).files
    /\ req' = [req EXCEPT ![r] = [req[r] EXCEPT !.pc = "dp_update"]]
    /\ UNCHANGED <<categories, nominees, votes, voteSeq, settings, audit_log, events, now, issued, hub>>

\* await run(UPDATE nominees SET photo_url = NULL)
DeleteNomineePhotoUpdate(r) ==
    /\ req[r].pc = "dp_update"
    /\ nominees' = SetPhotoUrl(nominees, req[r].nomineeId, NoFile)
    /\ req' = [req EXCEPT ![r] = [req[r] EXCEPT !.pc = "dp_audit"]]
    /\ UNCHANGED <<categories, votes, voteSeq, settings, audit_log, events, now, issued, files, hub>>

\* await logAudit('PHOTO_DELETE', 'nominees', nominee.id, ...)
DeleteNomineePhotoAudit(r) ==
    /\ req[r].pc = "dp_audit"
    /\ audit_log' = Append(audit_log, AuditEntry("PHOTO_DELETE", "nominees", "", req[r].nomineeId))
    /\ req' = [req EXCEPT ![r] = [req[r] EXCEPT !.pc = "dp_emit"]]
    /\ UNCHANGED <<categories, nominees, votes, voteSeq, settings, events, now, issued, files, hub>>

\* io.emit('nominee-photo-deleted', { nominee_id }); res.json({ success: true }).
DeleteNomineePhotoEmit(r) ==
    /\ req[r].pc = "dp_emit"
    /\ Emit(Event("nominee-photo-deleted", "", req[r].nomineeId, ""))
    /\ req' = [req EXCEPT ![r] = Respond(r, 200)]
    /\ UNCHANGED <<categories, nominees, votes, voteSeq, settings, audit_log, now, issued, files,
                   io, joins, clients>>

DeleteNomineePhotoStep(r) ==
    \/ DeleteNomineePhotoGet(r)
    \/ DeleteNomineePhotoUnlink(r)
    \/ DeleteNomineePhotoUpdate(r)
    \/ DeleteNomineePhotoAudit(r)
    \/ DeleteNomineePhotoEmit(r)

(***************************************************************************)
(* Store failures.  Any awaited statement can be rejected by SQLite (the   *)
(* database is busy, the disk is full, an I/O error), and no handler opens *)
(* a transaction: what its earlier statements wrote stays written.         *)
(***************************************************************************)
\* The positions at which a handler awaits db.get, db.run or db.all in its try block.
StatementPcs ==
    {"cv_enabled", "cv_deadline", "cv_category", "cv_nominee", "cv_existing", "cv_write",
     "dn_get", "dn_soft", "dn_votes", "dc_get", "dc_soft", "dc_nominees",
     "gc_list", "gc_nominees", "cc_get", "cc_insert", "uc_get", "uc_update",
     "an_get", "an_insert", "un_get", "un_update", "up_get", "up_update",
     "dp_get", "dp_update"}

\* The positions at which a handler awaits logAudit, and where it goes on from.
AuditPcs ==
    [pc \in {"dn_audit", "dc_audit", "cc_audit", "uc_audit", "un_audit", "up_audit", "dp_audit"} |->
        CASE pc = "dn_audit" -> "dn_emit"
          [] pc = "dc_audit" -> "dc_emit"
          [] pc = "cc_audit" -> "cc_emit"
          [] pc = "uc_audit" -> "uc_emit"
          [] pc = "un_audit" -> "un_emit"
          [] pc = "up_audit" -> "up_emit"
          [] pc = "dp_audit" -> "dp_emit"]

\* The awaited statement rejects: the catch block answers 500 (the upload
\* handler's catch block first removes the uploaded file).
StatementFails(r) ==
    /\ req[r].pc \in StatementPcs
    /\ req' = [req EXCEPT ![r] = Respond(r, 500)]
    /\ files' = IF req[r].op = "uploadNomineePhoto" THEN files \ {req[r].file} ELSE files
    /\ UNCHANGED <<categories, nominees, votes, voteSeq, settings, audit_log, events, now, issued, hub>>

\* A logAudit that lets its failure reach the handler's catch block.
AuditFails_Surfaced(r) ==
    /\ req[r].pc \in DOMAIN AuditPcs
    /\ req' = [req EXCEPT ![r] = Respond(r, 500)]
    /\ UNCHANGED <<categories, nominees, votes, voteSeq, settings, audit_log, events, now, issued,
                   files, hub>>

\* The INSERT of logAudit rejects: logAudit logs the error and returns, and the
\* handler goes on without an audit entry.
AuditFails(r) ==
    /\ req[r].pc \in DOMAIN AuditPcs
    /\ req' = [req EXCEPT ![r] = [req[r] EXCEPT !.pc = AuditPcs[req[r].pc]]]
    /\ UNCHANGED <<categories, nominees, votes, voteSeq, settings, audit_log, events, now, issued, files, hub>>

(***************************************************************************)
(* Specifications.                                                         *)
(***************************************************************************)
\* What a request may name: the ids the store holds, and for the requests
\* issued one after another also an id of no row and a missing nominee id.
StoredCategories == DOMAIN categories
StoredNominees == 1..Len(nominees)
AnyCategory == StoredCategories \cup {UnknownCategory}
AnyNominee == 0..(Len(nominees) + 1)

Step(r) ==
    \/ CastVoteStep(r)
    \/ DeleteNomineeStep(r)
    \/ DeleteCategoryStep(r)
    \/ GetCategoriesStep(r)

Issue(r, Cats, Noms) ==
    \/ \E s \in SessionIds, c \in Cats, n \in Noms : CastVoteStart(r, s, c, n)
    \/ \E c \in Cats, n \in Noms : DeleteNomineeStart(r, c, n)
    \/ \E c \in Cats : DeleteCategoryStart(r, c)
    \/ GetCategoriesStart(r)

\* Requests are handled concurrently: a new one may arrive while another is at an await.
Next ==
    \/ \E r \in Slots : Issue(r, StoredCategories, StoredNominees)
    \/ \E r \in Slots : Step(r)

Spec == Init /\ [][Next]_vars

\* Requests issued one after another: the next arrives when the last was answered.
SeqNext ==
    \/ \E r \in Slots : InFlight = {} /\ Issue(r, AnyCategory, AnyNominee)
    \/ \E r \in Slots : Step(r)

SeqSpec == InitAnySettings /\ [][SeqNext]_vars

(***************************************************************************)
(* The administrator's requests.                                           *)
(***************************************************************************)
\* What a form field may hold: nothing, or some text.
Texts == {"", "text"}
NewTitle == "People's Choice"
NewName == "Dave"

\* The file names a photo request may give: the names generated so far, one
\* that never was, and a bare extension (the LIKE pattern matches any suffix).
FileNames == {UploadName(k) : k \in 0..(issued + 1)} \cup {<<ImageExt>>}

\* The file part of an upload: none, a file the filter rejects, an image.
FileParts == {NoFile, NotAnImage, <<"portrait", ImageExt>>}

AdminStep(r) ==
    \/ CreateCategoryStep(r)
    \/ UpdateCategoryStep(r)
    \/ AddNomineeStep(r)
    \/ UpdateNomineeStep(r)
    \/ UploadNomineePhotoStep(r)
    \/ DeleteNomineePhotoStep(r)

AdminIssue(r, Cats, Noms) ==
    \/ \E id \in Cats \cup {""}, title \in {"", NewTitle}, description \in Texts, icon \in Texts :
          CreateCategoryStart(r, id, title, description, icon)
    \/ \E id \in Cats, title \in {Undefined, NewTitle} : UpdateCategoryStart(r, id, title)
    \/ \E c \in Cats, name \in {"", NewName} : AddNomineeStart(r, c, name)
    \/ \E c \in Cats, n \in Noms, name \in {Undefined, NewName} : UpdateNomineeStart(r, c, n, name)
    \/ \E n \in Noms, file \in FileParts : UploadNomineePhotoStart(r, n, file)
    \/ \E filename \in FileNames : DeleteNomineePhotoStart(r, filename)

\* Every request of the service, issued one after another.
AdminSeqNext ==
    \/ \E r \in Slots : InFlight = {} /\ Issue(r, AnyCategory, AnyNominee)
    \/ \E r \in Slots : InFlight = {} /\ AdminIssue(r, AnyCategory, AnyNominee)
    \/ \E r \in Slots : Step(r)
    \/ \E r \in Slots : AdminStep(r)

AdminSeqSpec == InitOpenOrClosed /\ [][AdminSeqNext]_vars

\* The catalogue requests that create and retire rows, handled concurrently.
CatalogNext ==
    \/ \E r \in Slots, id \in AnyCategory :
          CreateCategoryStart(r, id, NewTitle, "text", "text")
    \/ \E r \in Slots, c \in AnyCategory : AddNomineeStart(r, c, NewName)
    \/ \E r \in Slots, c \in AnyCategory : DeleteCategoryStart(r, c)
    \/ \E r \in Slots : CreateCategoryStep(r)
    \/ \E r \in Slots : AddNomineeStep(r)
    \/ \E r \in Slots : DeleteCategoryStep(r)

CatalogSpec == Init /\ [][CatalogNext]_vars

\* The requests of SeqSpec with a store whose statements may fail.
FaultSeqNext ==
    \/ SeqNext
    \/ \E r \in Slots : StatementFails(r)
    \/ \E r \in Slots : AuditFails(r)

FaultSeqSpec == Init /\ [][FaultSeqNext]_vars

\* Catalogue mutations handled concurrently, two of them updates of one
\* category with different titles, with an audit_log whose INSERT may fail.
OtherTitle == "Audience Award"

MutationNext ==
    \/ \E r \in Slots : CreateCategoryStart(r, UnknownCategory, NewTitle, "text", "text")
    \/ \E r \in Slots, title \in {NewTitle, OtherTitle} : UpdateCategoryStart(r, VoteCategory, title)
    \/ \E r \in Slots : DeleteNomineeStart(r, VoteCategory, 1)
    \/ \E r \in Slots : CreateCategoryStep(r)
    \/ \E r \in Slots : UpdateCategoryStep(r)
    \/ \E r \in Slots : DeleteNomineeStep(r)
    \/ \E r \in Slots : AuditFails(r)

MutationSpec == Init /\ [][MutationNext]_vars

\* Photo requests for the nominee that has a photo, handled concurrently on a
\* store whose statements may fail.
PhotoNext ==
    \/ \E r \in Slots : UploadNomineePhotoStart(r, 1, <<"portrait", ImageExt>>)
    \/ \E r \in Slots : DeleteNomineePhotoStart(r, UploadName(0))
    \/ \E r \in Slots : UploadNomineePhotoGet(r)
    \/ \E r \in Slots : UploadNomineePhotoOld(r)
    \/ \E r \in Slots : UploadNomineePhotoUpdate(r)
    \/ \E r \in Slots : UploadNomineePhotoAudit(r)
    \/ \E r \in Slots : UploadNomineePhotoEmit(r)
    \/ \E r \in Slots : DeleteNomineePhotoStep(r)
    \/ \E r \in Slots : StatementFails(r)

PhotoSpec == Init /\ [][PhotoNext]_vars

(***************************************************************************)
(* The real-time hub (index.js) and its clients (services/socket.ts,       *)
(* hooks/useCategories).                                                   *)
(***************************************************************************)
\* A connection that is first sent the events emitted before it was made.
Connect_Replays(c) ==
    /\ clients[c].socket = NoSocket
    /\ io.lastId < MaxSockets
    /\ LET id == io.lastId + 1
       IN  /\ io' = [io EXCEPT !.sockets = @ \cup {id}, !.lastId = id]
           /\ wire' = (id :> [since |-> Len(events), sent |-> events]) @@ wire
           /\ clients' = [clients EXCEPT ![c].socket = id, ![c].received = 0]
           /\ joins' = joins
    /\ UNCHANGED <<categories, nominees, votes, voteSeq, settings, audit_log, events, files, now,
                   req, issued>>

\* The socket of client c connects (a first connection, or the reconnection
\* socket.io-client makes after a loss): the server's 'connection' handler
\* registers its listeners on a socket with a new id, which is in no room but
\* its own; the client's 'connect' handler sends join-admin with the stored
\* token when the stored user data says role admin.
Connect(c) ==
    /\ clients[c].socket = NoSocket
    /\ io.lastId < MaxSockets
    /\ LET id == io.lastId + 1
       IN  /\ io' = [io EXCEPT !.sockets = @ \cup {id}, !.lastId = id]
           /\ wire' = (id :> [since |-> Len(events), sent |-> <<>>]) @@ wire
           /\ \E stored \in Credentials :
                 /\ clients' = [clients EXCEPT ![c].socket = id, ![c].storage = stored,
                                               ![c].received = 0]
                 /\ joins' = IF stored.token # "null" /\ stored.role = "admin"
                             THEN joins \cup {[socket |-> id, token |-> stored.token]}
                             ELSE joins
    /\ UNCHANGED <<categories, nominees, votes, voteSeq, settings, audit_log, events, files, now,
                   req, issued>>

\* A join-admin handler that trusts the role the browser stores with its token.
JoinAdmin_TrustsRole(m) ==
    /\ m \in joins
    /\ joins' = joins \ {m}
    /\ io' = IF \E c \in Clients : clients[c].socket = m.socket /\ clients[c].storage.role = "admin"
             THEN [io EXCEPT !.adminRoom = @ \cup {m.socket}]
             ELSE io
    /\ UNCHANGED <<categories, nominees, votes, voteSeq, settings, audit_log, events, files, now,
                   req, issued, wire, clients>>

\* socket.on('join-admin', (token) => ...).  index.js imports no jsonwebtoken:
\* jwt.verify(...) raises a ReferenceError whatever the token is, the catch
\* block logs it, and socket.join('admin-room') is never reached.
JoinAdmin(m) ==
    /\ m \in joins
    /\ joins' = joins \ {m}
    /\ UNCHANGED <<categories, nominees, votes, voteSeq, settings, audit_log, events, files, now,
                   req, issued, io, wire, clients>>

\* A loss of connection that only the browser notices.
Disconnect_ClientOnly(c) ==
    /\ clients[c].socket # NoSocket
    /\ clients' = [clients EXCEPT ![c].socket = NoSocket]
    /\ UNCHANGED <<categories, nominees, votes, voteSeq, settings, audit_log, events, files, now,
                   req, issued, io, wire, joins>>

\* The connection of client c is lost or closed: socket.io takes the socket
\* out of every room and the server's 'disconnect' handler logs it.  What was
\* on its way in either direction is lost.
Disconnect(c) ==
    /\ clients[c].socket # NoSocket
    /\ LET id == clients[c].socket
       IN  /\ io' = [io EXCEPT !.sockets = @ \ {id}, !.adminRoom = @ \ {id}]
           /\ wire' = [s \in DOMAIN wire \ {id} |-> wire[s]]
           /\ joins' = {m \in joins : m.socket # id}
           /\ clients' = [clients EXCEPT ![c].socket = NoSocket]
    /\ UNCHANGED <<categories, nominees, votes, voteSeq, settings, audit_log, events, files, now,
                   req, issued>>

\* nominee.id === data.id.  The stored ids are numbers; the id of a payload is
\* a number when the handler took it from the store (result.lastID, nominee.id)
\* and a string when it took it from the request (req.params, a multipart body).
StrictEquals(nomineeId, e) ==
    /\ e.name \in {"nominee-added", "nominee-photo-deleted"}
    /\ nomineeId = e.nomineeId

\* The useCategories listeners: what setCategories makes of prev on an event.
Merge(prev, e) ==
    LET OfCategory(cat, list) == [cat EXCEPT !.nominees = list]
        Each(cat, F(_)) == [i \in 1..Len(cat.nominees) |-> F(cat.nominees[i])]
        Renamed(n) ==
            IF StrictEquals(n.id, e) /\ e.data # Undefined THEN [n EXCEPT !.name = e.data] ELSE n
        Photo(n, url) == IF StrictEquals(n.id, e) THEN [n EXCEPT !.photo_url = url] ELSE n
        WithPhoto(n) == Photo(n, e.data)
        NoPhoto(n) == Photo(n, NoFile)
        Updated(cat) ==
            IF cat.id = e.categoryId /\ e.data # Undefined THEN [cat EXCEPT !.title = e.data]
            ELSE cat
        Added(cat) ==
            IF cat.id = e.categoryId
            THEN OfCategory(cat, Append(cat.nominees,
                     [id |-> e.nomineeId, name |-> e.data, photo_url |-> NoFile]))
            ELSE cat
        NomineeUpdated(cat) ==
            IF cat.id = e.categoryId THEN OfCategory(cat, Each(cat, Renamed)) ELSE cat
        NomineeDeleted(cat) ==
            IF cat.id = e.categoryId
            THEN OfCategory(cat, SelectSeq(cat.nominees, LAMBDA n : ~StrictEquals(n.id, e)))
            ELSE cat
        PhotoUpdated(cat) == OfCategory(cat, Each(cat, WithPhoto))
        PhotoDeleted(cat) == OfCategory(cat, Each(cat, NoPhoto))
        Map(F(_)) == [i \in 1..Len(prev) |-> F(prev[i])]
    IN  CASE e.name = "category-created" ->
                Append(prev, [id |-> e.categoryId, title |-> e.data, nominees |-> <<>>])
          [] e.name = "category-updated" -> Map(Updated)
          [] e.name = "category-deleted" -> SelectSeq(prev, LAMBDA cat : cat.id # e.categoryId)
          [] e.name = "nominee-added" -> Map(Added)
          [] e.name = "nominee-updated" -> Map(NomineeUpdated)
          [] e.name = "nominee-deleted" -> Map(NomineeDeleted)
          [] e.name = "nominee-photo-updated" -> Map(PhotoUpdated)
          [] e.name = "nominee-photo-deleted" -> Map(PhotoDeleted)
          [] OTHER -> prev

\* The next event sent to the socket of client c arrives: SocketService hands
\* it to the listeners registered for its name.
Receive(c) ==
    /\ clients[c].socket # NoSocket
    /\ clients[c].received < Len(wire[clients[c].socket].sent)
    /\ LET e == wire[clients[c].socket].sent[clients[c].received + 1]
       IN  clients' = [clients EXCEPT ![c].received = @ + 1,
                                      ![c].categories = Merge(@, e),
                                      ![c].asked = IF e.name = "vote-cast" /\ clients[c].mounted
                                                   THEN @ + 1 ELSE @]
    /\ UNCHANGED <<categories, nominees, votes, voteSeq, settings, audit_log, events, files, now,
                   req, issued, io, wire, joins>>

\* What GET /api/categories answers from the store: the active categories in
\* display order, each with its active nominees.
CategoriesResponse ==
    LET list == SelectActiveCategories(categories)
        Row(i) == [id |-> i, name |-> nominees[i].name, photo_url |-> nominees[i].photo_url]
        NomineesOf(c) ==
            LET ids == SelectSeq([i \in 1..Len(nominees) |-> i],
                                 LAMBDA i : nominees[i].category_id = c /\ nominees[i].is_active)
            IN  [k \in 1..Len(ids) |-> Row(ids[k])]
    IN  [k \in 1..Len(list) |->
            [id |-> list[k], title |-> categories[list[k]].title, nominees |-> NomineesOf(list[k])]]

\* fetchCategories up to its await, and getCategories answering it: the answer
\* carries the catalogue as the queries find it, and is on its way.
FetchCategories(c) ==
    /\ clients[c].page = {}
    /\ clients' = [clients EXCEPT ![c].loading = TRUE, ![c].page = {CategoriesResponse}]
    /\ UNCHANGED <<categories, nominees, votes, voteSeq, settings, audit_log, events, files, now,
                   req, issued, io, wire, joins>>

\* fetchCategories resumes with the answer: setCategories(response.data.data).
SetCategories(c) ==
    /\ \E data \in clients[c].page :
           clients' = [clients EXCEPT ![c].categories = data, ![c].loading = FALSE,
                                      ![c].page = {}]
    /\ UNCHANGED <<categories, nominees, votes, voteSeq, settings, audit_log, events, files, now,
                   req, issued, io, wire, joins>>

\* The session id the browser of client c keeps in localStorage: generated
\* once from the clock and a random number, so no two browsers share one.
getSessionId(c) == IF c = 1 THEN "s1" ELSE "s2"

\* useVoting is mounted: its effect calls fetchVoteStats (a GET /api/votes/stats
\* leaves the browser) and registers handleVoteCast, which Receive runs.
UseVoting(c) ==
    /\ ~clients[c].mounted
    /\ clients' = [clients EXCEPT ![c].mounted = TRUE, ![c].asked = @ + 1]
    /\ UNCHANGED <<categories, nominees, votes, voteSeq, settings, audit_log, events, files, now,
                   req, issued, io, wire, joins>>

\* getVoteStats handles one request of client c: the answer carries the tally
\* of the store as the query finds it, and is on its way to the browser.
GetVoteStatsFor(c) ==
    /\ clients[c].asked > 0
    /\ clients' = [clients EXCEPT ![c].asked = @ - 1, ![c].replies = @ \cup {GetVoteStats}]
    /\ UNCHANGED <<categories, nominees, votes, voteSeq, settings, audit_log, events, files, now,
                   req, issued, io, wire, joins>>

\* fetchVoteStats resumes with one of the answers on their way, whichever
\* arrives next: setVoteStats(response.data.data).
SetVoteStats(c) ==
    /\ \E data \in clients[c].replies :
           clients' = [clients EXCEPT ![c].replies = @ \ {data}, ![c].voteStats = data]
    /\ UNCHANGED <<categories, nominees, votes, voteSeq, settings, audit_log, events, files, now,
                   req, issued, io, wire, joins>>

\* socketService.on(event, callback): a hook registers its callback.
On(c) ==
    /\ ~clients[c].listening
    /\ clients' = [clients EXCEPT ![c].listening = TRUE]
    /\ UNCHANGED <<categories, nominees, votes, voteSeq, settings, audit_log, events, files, now,
                   req, issued, io, wire, joins>>

\* SocketService.connect(): it returns at once when this.socket is connected;
\* else io(SOCKET_URL) opens a socket that starts to connect, this.socket is
\* that socket, and setupEventListeners puts the forwarding listeners on it.
\* read holds, for each socket the service has opened and not closed, the
\* number of events its forwarding listeners have handed on.
ConnectCall(c) ==
    /\ clients[c].socket \notin io.sockets
    /\ io.lastId < MaxSockets
    /\ LET id == io.lastId + 1
       IN  /\ io' = [io EXCEPT !.lastId = id]
           /\ clients' = [clients EXCEPT ![c].socket = id, ![c].read = (id :> 0) @@ @]
    /\ UNCHANGED <<categories, nominees, votes, voteSeq, settings, audit_log, events, files, now,
                   req, issued, wire, joins>>

\* A socket the service of client c has opened completes its connection: the
\* server holds it, and its 'connect' handler sends join-admin when the stored
\* user data says role admin.
Established(c) ==
    /\ \E id \in DOMAIN clients[c].read \ io.sockets :
          /\ io' = [io EXCEPT !.sockets = @ \cup {id}]
          /\ wire' = (id :> [since |-> Len(events), sent |-> <<>>]) @@ wire
          /\ joins' = IF clients[c].storage.token # "null" /\ clients[c].storage.role = "admin"
                      THEN joins \cup {[socket |-> id, token |-> clients[c].storage.token]}
                      ELSE joins
    /\ UNCHANGED <<categories, nominees, votes, voteSeq, settings, audit_log, events, files, now,
                   req, issued, clients>>

\* SocketService.disconnect(): this.socket is closed and forgotten, and the
\* listener registry is cleared.
DisconnectCall(c) ==
    /\ clients[c].socket # NoSocket
    /\ LET id == clients[c].socket
       IN  /\ io' = [io EXCEPT !.sockets = @ \ {id}, !.adminRoom = @ \ {id}]
           /\ wire' = [s \in DOMAIN wire \ {id} |-> wire[s]]
           /\ joins' = {m \in joins : m.socket # id}
           /\ clients' = [clients EXCEPT
                              ![c].socket = NoSocket,
                              ![c].read = [s \in DOMAIN @ \ {id} |-> @[s]],
                              ![c].listening = FALSE]
    /\ UNCHANGED <<categories, nominees, votes, voteSeq, settings, audit_log, events, files, now,
                   req, issued>>

\* The next event sent to one of the sockets the service of client c has open
\* arrives: the forwarding listener of that socket calls this.emit, which runs
\* the registered callbacks.  invoked lists the events the callbacks ran on,
\* by their place among the events emitted.
Forward(c) ==
    /\ \E id \in DOMAIN clients[c].read \cap DOMAIN wire :
          /\ clients[c].read[id] < Len(wire[id].sent)
          /\ LET e == wire[id].sent[clients[c].read[id] + 1]
                 place == wire[id].since + clients[c].read[id] + 1
             IN  clients' =
                     IF clients[c].listening
                     THEN [clients EXCEPT ![c].read[id] = @ + 1,
                                          ![c].invoked = Append(@, place),
                                          ![c].categories = Merge(@, e)]
                     ELSE [clients EXCEPT ![c].read[id] = @ + 1]
    /\ UNCHANGED <<categories, nominees, votes, voteSeq, settings, audit_log, events, files, now,
                   req, issued, io, wire, joins>>

\* Browsers connect, ask for the admin room and lose their connection while
\* categories are updated.
HubNext ==
    \/ \E r \in Slots : InFlight = {} /\ UpdateCategoryStart(r, VoteCategory, NewTitle)
    \/ \E r \in Slots : UpdateCategoryStep(r)
    \/ \E c \in Clients : Connect(c)
    \/ \E m \in joins : JoinAdmin(m)
    \/ \E c \in Clients : Disconnect(c)
    \/ \E c \in Clients : Receive(c)

HubSpec == Init /\ [][HubNext]_vars

\* One page: it connects, fetches the categories and merges the events of the
\* catalogue requests, which are issued one after another.
PageNext ==
    \/ \E r \in Slots : InFlight = {} /\ CreateCategoryStart(r, UnknownCategory, NewTitle, "text", "text")
    \/ \E r \in Slots : InFlight = {} /\ UpdateCategoryStart(r, VoteCategory, NewTitle)
    \/ \E r \in Slots : InFlight = {} /\ DeleteCategoryStart(r, AwardCategory)
    \/ \E r \in Slots : InFlight = {} /\ UpdateNomineeStart(r, VoteCategory, 1, NewName)
    \/ \E r \in Slots : InFlight = {} /\ DeleteNomineeStart(r, VoteCategory, 2)
    \/ \E r \in Slots : CreateCategoryStep(r)
    \/ \E r \in Slots : UpdateCategoryStep(r)
    \/ \E r \in Slots : DeleteCategoryStep(r)
    \/ \E r \in Slots : UpdateNomineeStep(r)
    \/ \E r \in Slots : DeleteNomineeStep(r)
    \/ Connect(1)
    \/ \E m \in joins : JoinAdmin(m)
    \/ Receive(1)
    \/ FetchCategories(1)
    \/ SetCategories(1)

PageSpec == Init /\ [][PageNext]_vars

\* One voting page: it connects, mounts useVoting and follows the vote-cast
\* events of the votes the two sessions cast one after another.
VotingNext ==
    \/ \E r \in Slots : \E s \in SessionIds : \E n \in {1, 2} :
           InFlight = {} /\ CastVoteStart(r, s, VoteCategory, n)
    \/ \E r \in Slots : CastVoteStep(r)
    \/ Connect(1)
    \/ Receive(1)
    \/ UseVoting(1)
    \/ GetVoteStatsFor(1)
    \/ SetVoteStats(1)

VotingSpec == Init /\ [][VotingNext]_vars

\* One page and its SocketService: the page calls connect() and disconnect()
\* and registers a callback while categories are updated.
SocketNext ==
    \/ \E r \in Slots : InFlight = {} /\ UpdateCategoryStart(r, VoteCategory, NewTitle)
    \/ \E r \in Slots : UpdateCategoryStep(r)
    \/ On(1)
    \/ ConnectCall(1)
    \/ Established(1)
    \/ DisconnectCall(1)
    \/ Forward(1)

SocketSpec == Init /\ [][SocketNext]_vars

(***************************************************************************)
(* What the specification says of the vote gate and of references, stated  *)
(* on the stored rows, for the properties below.                           *)
(***************************************************************************)
EnabledIsTrue == settings["voting_enabled"] = "true"
PastDeadline(t) ==
    /\ settings["voting_end_date"] \in DOMAIN IsoInstant
    /\ t > IsoInstant[settings["voting_end_date"]]
CategoryGone(c) == c \notin DOMAIN categories \/ ~categories[c].is_active
NomineeGone(n, c) ==
    \/ n \notin 1..Len(nominees)
    \/ ~nominees[n].is_active
    \/ nominees[n].category_id # c
RowsOf(s, c) == {v \in votes : v.session_id = s /\ v.category_id = c}
IsCastVote(r) == req[r].op = "castVote"
Moved(r) == req'[r] # req[r]
Answered(r, code) == req[r].pc = "done" /\ req[r].status = code

(***************************************************************************)
(* C1.  In every reachable state, under any interleaving of castVote,      *)
(* deleteNominee and deleteCategory requests, the votes table holds at     *)
(* most one row for each (session_id, category_id) pair.                   *)
(***************************************************************************)
C1_OneRowPerSessionCategory ==
    \A v \in votes, w \in votes :
        (v.session_id = w.session_id /\ v.category_id = w.category_id) => v = w

\* Two castVote requests for one pair both read "no row" and both reached the write.
C1_Witness ==
    \E r \in Slots, q \in Slots :
        /\ r # q
        /\ IsCastVote(r) /\ IsCastVote(q)
        /\ req[r].sessionId = req[q].sessionId /\ req[r].categoryId = req[q].categoryId
        /\ req[r].pc = "done" /\ req[q].pc = "done"
        /\ req[r].status \in {200, 500} /\ req[q].status \in {200, 500}
        /\ req[r].existingVote = 0 /\ req[q].existingVote = 0
        /\ Cardinality(RowsOf(req[r].sessionId, req[r].categoryId)) = 1

(***************************************************************************)
(* C2.  A castVote(S, C, n) issued after the previous one was answered,    *)
(* while voting is open and n is an active nominee of C, succeeds, and     *)
(* the votes table then holds exactly one row for (S, C), naming n: a      *)
(* revote overwrites the existing row.                                     *)
(***************************************************************************)
C2_RevoteOverwrites ==
    \A r \in Slots :
        ( /\ IsCastVote(r) /\ req[r].pc = "done"
          /\ EnabledIsTrue /\ ~PastDeadline(now)
          /\ ~CategoryGone(req[r].categoryId)
          /\ ~NomineeGone(req[r].nomineeId, req[r].categoryId) )
        => /\ req[r].status = 200
           /\ \E v \in votes :
                 /\ RowsOf(req[r].sessionId, req[r].categoryId) = {v}
                 /\ v.nominee_id = req[r].nomineeId

(***************************************************************************)
(* C3.  When two castVote requests for the same (session, category) with   *)
(* no prior row run concurrently, both end in success and exactly one row  *)
(* for the pair exists afterwards.                                         *)
(***************************************************************************)
C3_RaceBothSucceed ==
    \A r \in Slots, q \in Slots :
        ( /\ r # q
          /\ IsCastVote(r) /\ IsCastVote(q)
          /\ req[r].sessionId = req[q].sessionId /\ req[r].categoryId = req[q].categoryId
          /\ req[r].pc = "done" /\ req[q].pc = "done"
          /\ req[r].status \in {200, 500} /\ req[q].status \in {200, 500}
          /\ req[r].existingVote = 0 /\ req[q].existingVote = 0 )
        => /\ req[r].status = 200 /\ req[q].status = 200
           /\ Cardinality(RowsOf(req[r].sessionId, req[r].categoryId)) = 1

\* What one step of request r at the vote gate does when voting is closed.
C4_Step(r) ==
    /\ ( /\ req[r].pc = "cv_enabled" /\ Moved(r) /\ ~EnabledIsTrue )
       => req'[r].pc = "done" /\ req'[r].status = 403
    /\ ( /\ req[r].pc = "cv_deadline" /\ Moved(r) /\ PastDeadline(now') )
       => req'[r].pc = "done" /\ req'[r].status = 403
    /\ ( /\ req[r].pc \in {"cv_enabled", "cv_deadline"} /\ Moved(r) )
       => votes' = votes /\ events' = events /\ audit_log' = audit_log

(***************************************************************************)
(* C4.  A castVote that meets the gate while voting_enabled is not "true", *)
(* or reads the clock after voting_end_date, is answered 403 (voting       *)
(* closed); no step it has taken changed the votes table or emitted an     *)
(* event.                                                                  *)
(***************************************************************************)
C4_ClosedVoteRejected == [][\A r \in Slots : C4_Step(r)]_vars

\* A vote arrived after the deadline and was turned away, the stored vote untouched.
C4_Witness ==
    \E r \in Slots :
        /\ IsCastVote(r) /\ Answered(r, 403)
        /\ EnabledIsTrue /\ PastDeadline(now)
        /\ ~NomineeGone(req[r].nomineeId, req[r].categoryId)
        /\ votes = {[id |-> 1, session_id |-> "s1", category_id |-> VoteCategory, nominee_id |-> 1]}
        /\ events = <<>>

\* Which way one step of request r at the vote gate goes.
C5_Step(r) ==
    /\ ( req[r].pc = "cv_enabled" /\ Moved(r) )
       => ( req'[r].pc = "cv_deadline" <=> EnabledIsTrue )
    /\ ( req[r].pc = "cv_deadline" /\ Moved(r) )
       => ( req'[r].pc = "cv_category" <=> ~PastDeadline(now') )
    /\ ( req[r].pc \in {"cv_enabled", "cv_deadline"} /\ Moved(r) )
       => ( req'[r].pc \in {"cv_deadline", "cv_category"} \/ (req'[r].pc = "done" /\ req'[r].status = 403) )

(***************************************************************************)
(* C5.  The gate is exactly: voting is open iff the voting_enabled row     *)
(* exists with value "true" and it is not the case that now is after       *)
(* voting_end_date; now = voting_end_date is accepted, a missing           *)
(* voting_end_date row means no deadline.                                  *)
(***************************************************************************)
C5_GateExact == [][\A r \in Slots : C5_Step(r)]_vars

\* A vote passed the gate at the very instant of the deadline.
C5_Witness ==
    \E r \in Slots :
        /\ IsCastVote(r) /\ req[r].pc = "cv_category"
        /\ settings["voting_end_date"] = SeededDeadline
        /\ now = IsoInstant[SeededDeadline]

\* What one lookup step of request r does when the reference is stale.
C6_Step(r) ==
    /\ ( /\ req[r].pc = "cv_category" /\ Moved(r) /\ CategoryGone(req[r].categoryId) )
       => req'[r].pc = "done" /\ req'[r].status = 404
    /\ ( /\ req[r].pc = "cv_nominee" /\ Moved(r)
         /\ NomineeGone(req[r].nomineeId, req[r].categoryId) )
       => req'[r].pc = "done" /\ req'[r].status = 404
    /\ ( /\ req[r].pc \in {"cv_category", "cv_nominee"} /\ Moved(r) )
       => votes' = votes /\ events' = events /\ audit_log' = audit_log

(***************************************************************************)
(* C6.  castVote(S, C, n) is answered 404 (not found), changing no vote    *)
(* row and emitting no event, whenever its lookup finds category C absent  *)
(* or inactive, or nominee n absent, inactive or not belonging to C.       *)
(***************************************************************************)
C6_StaleReferenceRejected == [][\A r \in Slots : C6_Step(r)]_vars

\* A vote named an active nominee of another category and was answered 404.
C6_Witness ==
    \E r \in Slots :
        /\ IsCastVote(r) /\ Answered(r, 404)
        /\ ~CategoryGone(req[r].categoryId)
        /\ req[r].nomineeId \in 1..Len(nominees)
        /\ nominees[req[r].nomineeId].is_active
        /\ nominees[req[r].nomineeId].category_id # req[r].categoryId
        /\ RowsOf(req[r].sessionId, req[r].categoryId) = {}

\* The sessions whose current vote row for category c names nominee n.
SessionsNaming(c, n) == {s \in SessionIds : \E v \in RowsOf(s, c) : v.nominee_id = n}

(***************************************************************************)
(* C7.  The tally of an active nominee n in an active category C equals    *)
(* the number of distinct sessions whose current vote row for C names n:   *)
(* a repeated castVote(S, C, n) by the same session succeeds and leaves    *)
(* the tally unchanged, and a first castVote(S', C, n) by another session  *)
(* succeeds and is counted.                                                *)
(***************************************************************************)
C7_TallyCountsSessions ==
    /\ \A c \in DOMAIN GetVoteStats : \A n \in DOMAIN GetVoteStats[c] :
          GetVoteStats[c][n] = Cardinality(SessionsNaming(c, n))
    /\ \A r \in Slots :
          ( /\ IsCastVote(r) /\ req[r].pc = "done"
            /\ EnabledIsTrue /\ ~PastDeadline(now)
            /\ ~CategoryGone(req[r].categoryId)
            /\ ~NomineeGone(req[r].nomineeId, req[r].categoryId)
            /\ req[r].sessionId \in SessionsNaming(req[r].categoryId, req[r].nomineeId) )
          => req[r].status = 200

\* What the two queries show of an inactive category, and what deleteCategory leaves alone.
C8_Hidden ==
    /\ \A r \in Slots :
          (req[r].op = "getCategories" /\ req[r].pc = "done")
          => \A c \in req[r].inactiveAtIssue :
                /\ \A i \in 1..Len(req[r].list) : req[r].list[i] # c
                /\ \A n \in req[r].data : n.category_id # c
    /\ \A c \in DOMAIN categories :
          ~categories[c].is_active
          => /\ c \notin DOMAIN GetVoteStats
             /\ \A d \in DOMAIN GetVoteStats : \A n \in DOMAIN GetVoteStats[d] :
                   nominees[n].category_id # c

C8_VotesKept ==
    \A r \in Slots : (req[r].op = "deleteCategory" /\ Moved(r)) => votes' = votes

(***************************************************************************)
(* C8.  After a successful deleteCategory(C), getCategories returns        *)
(* neither C nor any nominee of C, the vote rows that reference C's        *)
(* nominees are still in storage (no step of deleteCategory touches the    *)
(* votes table), and the tally query no longer reports C or counts those   *)
(* votes.                                                                  *)
(***************************************************************************)
C8_DeletedCategoryHidden == []C8_Hidden /\ [][C8_VotesKept]_vars

\* The voting category was deleted; a later getCategories was answered, and the
\* vote cast for its nominee is still stored.
C8_Witness ==
    \E r \in Slots :
        /\ req[r].op = "getCategories" /\ Answered(r, 200)
        /\ VoteCategory \in req[r].inactiveAtIssue
        /\ Event("category-deleted", VoteCategory, 0, "") \in {events[i] : i \in 1..Len(events)}
        /\ \E v \in votes : v.category_id = VoteCategory /\ ~nominees[v.nominee_id].is_active

(***************************************************************************)
(* C9.  After a successful deleteNominee(n), no vote row references n and  *)
(* the tally for n's category no longer lists n.                           *)
(***************************************************************************)
C9_DeletedNomineeHasNoVotes ==
    \A r \in Slots :
        (req[r].op = "deleteNominee" /\ Answered(r, 200))
        => /\ \A v \in votes : v.nominee_id # req[r].nomineeId
           /\ \A c \in DOMAIN GetVoteStats : req[r].nomineeId \notin DOMAIN GetVoteStats[c]

\* The references of request r at the step that applies its write.
C10_Step(r) ==
    ( /\ req[r].pc = "cv_write" /\ Moved(r) /\ votes' # votes )
    => /\ ~CategoryGone(req[r].categoryId)
       /\ ~NomineeGone(req[r].nomineeId, req[r].categoryId)

(***************************************************************************)
(* C10.  A vote's references are revalidated at the moment of the write:   *)
(* under any interleaving of castVote with deleteNominee or                *)
(* deleteCategory, no vote row is inserted or overwritten to reference a   *)
(* nominee or category that is already inactive when the write is applied. *)
(***************************************************************************)
C10_WriteRevalidates == [][\A r \in Slots : C10_Step(r)]_vars

(***************************************************************************)
(* What the specification says of the mutation requests, stated over the   *)
(* model.  A request's own effect is what differs from the store as it was *)
(* when the request arrived; where requests are issued one after another   *)
(* nothing else can have changed it.                                       *)
(***************************************************************************)
Mutations ==
    {"createCategory", "updateCategory", "deleteCategory", "addNominee", "updateNominee",
     "deleteNominee", "uploadNomineePhoto", "deleteNomineePhoto", "castVote"}
CategoryOps == {"createCategory", "updateCategory", "deleteCategory"}
NomineeOps == {"addNominee", "updateNominee", "deleteNominee"}
PhotoOps == {"uploadNomineePhoto", "deleteNomineePhoto"}

\* The event kind the specification pairs with each operation.
EventKind ==
    [op \in Mutations |->
        CASE op = "createCategory" -> "category-created"
          [] op = "updateCategory" -> "category-updated"
          [] op = "deleteCategory" -> "category-deleted"
          [] op = "addNominee" -> "nominee-added"
          [] op = "updateNominee" -> "nominee-updated"
          [] op = "deleteNominee" -> "nominee-deleted"
          [] op = "uploadNomineePhoto" -> "nominee-photo-updated"
          [] op = "deleteNomineePhoto" -> "nominee-photo-deleted"
          [] op = "castVote" -> "vote-cast"]

Done(r) == req[r].pc = "done"
Succeeded(r) == Done(r) /\ req[r].status \in {200, 201}
Rejected(r) == Done(r) /\ req[r].status \in {400, 403, 404, 409}

\* The rows that differ from what they were when request r arrived.
ChangedCategories(r) ==
    {c \in DOMAIN categories :
        c \notin DOMAIN req[r].atIssue.categories \/ categories[c] # req[r].atIssue.categories[c]}
ChangedNominees(r) ==
    {i \in 1..Len(nominees) :
        i > Len(req[r].atIssue.nominees) \/ nominees[i] # req[r].atIssue.nominees[i]}
ChangedVotes(r) == votes \ req[r].atIssue.votes
EmittedSince(r) == Len(events) - req[r].atIssue.emitted
AuditedSince(r) == Len(audit_log) - req[r].atIssue.audits
StoreAsAtIssue(r) ==
    /\ categories = req[r].atIssue.categories
    /\ nominees = req[r].atIssue.nominees
    /\ votes = req[r].atIssue.votes

\* The ids of the last event name what request r changed.
LastEventNames(r) ==
    LET e == events[Len(events)]
    IN  /\ e.name = EventKind[req[r].op]
        /\ req[r].op \in CategoryOps => ChangedCategories(r) \subseteq {e.categoryId}
        /\ req[r].op \in NomineeOps =>
              /\ ChangedNominees(r) \subseteq {e.nomineeId}
              /\ \A i \in ChangedNominees(r) : nominees[i].category_id = e.categoryId
        /\ req[r].op \in PhotoOps => ChangedNominees(r) \subseteq {e.nomineeId}
        /\ req[r].op = "castVote" =>
              \A v \in ChangedVotes(r) :
                  /\ v.session_id = e.sessionId
                  /\ v.category_id = e.categoryId
                  /\ v.nominee_id = e.nomineeId

\* An answered mutation has emitted one event, naming what it changed, when it
\* reported success, and never more than one.
C11_Answered ==
    \A r \in Slots :
        req[r].op \in Mutations =>
            /\ EmittedSince(r) <= 1
            /\ Succeeded(r) => EmittedSince(r) = 1 /\ LastEventNames(r)

\* Under any scheduling the event goes out in the step that answers success.
C11_Step ==
    \A r \in Slots :
        Moved(r) /\ req'[r].op \in Mutations =>
            IF req'[r].pc = "done" /\ req'[r].status \in {200, 201}
            THEN /\ Len(events') = Len(events) + 1
                 /\ events'[Len(events')].name = EventKind[req'[r].op]
            ELSE events' = events

(***************************************************************************)
(* C11.  Every mutation request that reports success emits exactly one     *)
(* broadcast event, of the kind of its operation and with id fields that   *)
(* name the entity it changed; no request emits more than one event.       *)
(* Stated for requests issued one after another.  addNominee never         *)
(* reports success, so the statement says nothing of 'nominee-added'.      *)
(***************************************************************************)
C11_OneEventPerSuccess == []C11_Answered /\ [][C11_Step]_vars

\* A created category has been announced and its request answered 201.
C11_Witness ==
    \E r \in Slots :
        /\ req[r].op = "createCategory"
        /\ Succeeded(r)
        /\ req[r].categoryId \in ChangedCategories(r)
        /\ events[Len(events)].name = "category-created"
        /\ events[Len(events)].categoryId = req[r].categoryId

\* An answered request that was rejected has left the store and both logs as
\* it found them.
C12_Answered ==
    \A r \in Slots :
        req[r].op \in Mutations /\ Rejected(r) =>
            /\ StoreAsAtIssue(r)
            /\ AuditedSince(r) = 0
            /\ EmittedSince(r) = 0

\* Under any scheduling the step that rejects writes nothing.
C12_Step ==
    \A r \in Slots :
        (Moved(r) /\ req'[r].op \in Mutations /\ req'[r].pc = "done"
            /\ req'[r].status \in {400, 403, 404, 409})
        => UNCHANGED <<categories, nominees, votes, audit_log, events>>

(***************************************************************************)
(* C12.  A mutation request rejected with InvalidInput (400), Conflict     *)
(* (409), NotFound (404) or VotingClosed (403) leaves categories, nominees *)
(* and votes unchanged, writes no audit entry and emits no broadcast       *)
(* event.                                                                  *)
(***************************************************************************)
C12_RejectionChangesNothing == []C12_Answered /\ [][C12_Step]_vars

\* A createCategory answered 409 after an earlier mutation was applied and audited.
C12_Witness ==
    \E r \in Slots :
        /\ req[r].op = "createCategory"
        /\ Answered(r, 409)
        /\ req[r].atIssue.audits > 0
        /\ StoreAsAtIssue(r)

(***************************************************************************)
(* C13.  Multi-statement mutations are all-or-nothing: when a store        *)
(* failure makes deleteCategory or deleteNominee answer 500, no part of    *)
(* its change persists: the category is not left inactive with its         *)
(* nominees still active, nor the nominee inactive with its votes still    *)
(* stored.  Stated for requests issued one after another.                  *)
(***************************************************************************)
C13_AllOrNothing ==
    \A r \in Slots :
        (req[r].op \in {"deleteCategory", "deleteNominee"} /\ Answered(r, 500))
        => /\ StoreAsAtIssue(r)
           /\ req[r].op = "deleteCategory" =>
                 ~(/\ CategoryGone(req[r].categoryId)
                   /\ \E i \in 1..Len(nominees) :
                         nominees[i].category_id = req[r].categoryId /\ nominees[i].is_active)
           /\ req[r].op = "deleteNominee" =>
                 ~(\E i \in ChangedNominees(r), v \in votes :
                       ~nominees[i].is_active /\ v.nominee_id = i)

\* Request r is an answered createCategory that carried every required field.
CreateAnswered(r) == req[r].op = "createCategory" /\ Done(r) /\ req[r].status # 400
FreshAtIssue(r) == req[r].categoryId \notin DOMAIN req[r].atIssue.categories

(***************************************************************************)
(* C14.  createCategory with an id the store already holds (active or      *)
(* soft-deleted) fails with Conflict (409); with a fresh id and all the    *)
(* required fields it stores the category and answers 201.  Of two         *)
(* createCategory requests with the same fresh id that run concurrently,   *)
(* one answers 201 and the other 409, never 500.                           *)
(***************************************************************************)
C14_CreateOnceOrConflict ==
    /\ \A r \in Slots :
          CreateAnswered(r) =>
              IF FreshAtIssue(r)
              THEN /\ req[r].status \in {201, 409}
                   /\ req[r].categoryId \in DOMAIN categories
              ELSE req[r].status = 409
    /\ \A r1, r2 \in Slots :
          ( /\ r1 # r2
            /\ CreateAnswered(r1) /\ CreateAnswered(r2)
            /\ req[r1].categoryId = req[r2].categoryId
            /\ FreshAtIssue(r1) /\ FreshAtIssue(r2) )
          => {req[r1].status, req[r2].status} = {201, 409}

\* The category / nominee was absent or inactive when request r arrived.
CategoryGoneAtIssue(r, c) ==
    c \notin DOMAIN req[r].atIssue.categories \/ ~req[r].atIssue.categories[c].is_active
NomineeGoneAtIssue(r, n, c) ==
    \/ n \notin 1..Len(req[r].atIssue.nominees)
    \/ ~req[r].atIssue.nominees[n].is_active
    \/ req[r].atIssue.nominees[n].category_id # c

(***************************************************************************)
(* C15.  updateCategory on a category that is absent or inactive           *)
(* (soft-deleted) fails with NotFound (404), changes no row and emits no   *)
(* category-updated event.  Stated for requests issued one after another.  *)
(***************************************************************************)
C15_UpdateOfGoneCategoryRejected ==
    \A r \in Slots :
        ( /\ req[r].op = "updateCategory"
          /\ Done(r)
          /\ CategoryGoneAtIssue(r, req[r].categoryId) )
        => /\ req[r].status = 404
           /\ StoreAsAtIssue(r)
           /\ EmittedSince(r) = 0

\* How often the logs record the deletion of category c.
DeletedEvents(c) ==
    {i \in 1..Len(events) : events[i].name = "category-deleted" /\ events[i].categoryId = c}
DeleteAudits(c) ==
    {i \in 1..Len(audit_log) :
        /\ audit_log[i].action = "DELETE"
        /\ audit_log[i].table_name = "categories"
        /\ audit_log[i].categoryId = c}

(***************************************************************************)
(* C16.  deleteCategory on a stale id (a category already soft-deleted, or *)
(* absent) fails with NotFound (404) with no state change, so over any     *)
(* sequence of requests at most one category-deleted event and one DELETE  *)
(* audit entry are ever produced per category.                             *)
(***************************************************************************)
C16_DeleteCategoryOnce ==
    /\ \A r \in Slots :
          ( /\ req[r].op = "deleteCategory"
            /\ Done(r)
            /\ CategoryGoneAtIssue(r, req[r].categoryId) )
          => req[r].status = 404 /\ StoreAsAtIssue(r)
    /\ \A c \in AnyCategory :
          Cardinality(DeletedEvents(c)) <= 1 /\ Cardinality(DeleteAudits(c)) <= 1

(***************************************************************************)
(* C17.  updateNominee and deleteNominee on a nominee that is absent,      *)
(* inactive (soft-deleted directly or by category cascade) or not in the   *)
(* given category fail with NotFound (404), change nothing and emit no     *)
(* nominee-updated / nominee-deleted event.  Stated for requests issued    *)
(* one after another.                                                      *)
(***************************************************************************)
C17_GoneNomineeRejected ==
    \A r \in Slots :
        ( /\ req[r].op \in {"updateNominee", "deleteNominee"}
          /\ Done(r)
          /\ NomineeGoneAtIssue(r, req[r].nomineeId, req[r].categoryId) )
        => /\ req[r].status = 404
           /\ StoreAsAtIssue(r)
           /\ EmittedSince(r) = 0

\* The active nominees whose category is absent or inactive.
Orphans == {i \in 1..Len(nominees) : nominees[i].is_active /\ CategoryGone(nominees[i].category_id)}

(***************************************************************************)
(* C18.  A category exclusively owns its nominees: under any interleaving  *)
(* of addNominee(C, ...) with deleteCategory(C), once all requests have    *)
(* completed no active nominee belongs to an inactive category.            *)
(***************************************************************************)
C18_NoOrphanNominee == InFlight = {} => Orphans = {}

\* addNominee's two outcomes, for an answered request r.
AddedAndAnnounced(r) ==
    /\ req[r].status = 201
    /\ ChangedNominees(r) = {Len(nominees)}
    /\ Len(nominees) = Len(req[r].atIssue.nominees) + 1
    /\ nominees[Len(nominees)].category_id = req[r].categoryId
    /\ ~CategoryGoneAtIssue(r, req[r].categoryId)
    /\ EmittedSince(r) = 1
    /\ events[Len(events)] = Event("nominee-added", req[r].categoryId, Len(nominees), "")
RefusedAndNothingAdded(r) ==
    /\ req[r].status \in {400, 404, 500}
    /\ req[r].status = 400 <=> req[r].title \in {"", Undefined}
    /\ req[r].status = 404 => CategoryGoneAtIssue(r, req[r].categoryId)
    /\ nominees = req[r].atIssue.nominees

(***************************************************************************)
(* C19.  addNominee has exactly two outcomes: it reports success, the      *)
(* nominee row is stored under the active category and one nominee-added   *)
(* event carrying the generated id is emitted; or it reports an error      *)
(* (404 for an inactive/absent category, 400 for a missing name, 500       *)
(* otherwise) and no nominee row has been added.  It never stores a        *)
(* nominee while reporting failure.  Stated for requests issued one after  *)
(* another.                                                                *)
(***************************************************************************)
C19_AddNomineeTwoOutcomes ==
    \A r \in Slots :
        req[r].op = "addNominee" /\ Done(r) =>
            AddedAndAnnounced(r) \/ RefusedAndNothingAdded(r)

\* The table each operation changes.
TargetTable(op) ==
    IF op \in CategoryOps THEN "categories" ELSE IF op = "castVote" THEN "votes" ELSE "nominees"

\* The last audit entry records request r's change.
LastAuditRecords(r) ==
    LET a == audit_log[Len(audit_log)]
    IN  /\ a.table_name = TargetTable(req[r].op)
        /\ req[r].op \in CategoryOps => a.categoryId = req[r].categoryId
        /\ req[r].op \in NomineeOps \cup PhotoOps => a.nomineeId = req[r].nomineeId

(***************************************************************************)
(* C20.  Every successful mutation, castVote included (first vote and      *)
(* revote), appends exactly one audit entry recording the action, the      *)
(* target table and the target id.  Stated for requests issued one after   *)
(* another.                                                                *)
(***************************************************************************)
C20_OneAuditPerSuccess ==
    \A r \in Slots :
        req[r].op \in Mutations /\ Succeeded(r) =>
            AuditedSince(r) = 1 /\ LastAuditRecords(r)

(***************************************************************************)
(* What the specification says of the order of commit, audit and           *)
(* broadcast.                                                              *)
(***************************************************************************)
\* The positions at which a handler emits its event and answers.
EmitPcs == {AuditPcs[pc] : pc \in DOMAIN AuditPcs}

\* Request r is past its logAudit with nothing written to audit_log.
AuditFailed(r) ==
    /\ req[r].pc \in DOMAIN AuditPcs
    /\ req'[r] # req[r]
    /\ audit_log' = audit_log

StoreUnchanged == categories' = categories /\ nominees' = nominees /\ votes' = votes

C21_Step ==
    \A r \in Slots :
        /\ AuditFailed(r) =>
              /\ StoreUnchanged
              /\ req'[r] = [req[r] EXCEPT !.pc = AuditPcs[req[r].pc]]
        /\ req[r].pc \in EmitPcs /\ req'[r] # req[r] =>
              /\ StoreUnchanged
              /\ Len(events') = Len(events) + 1
              /\ events'[Len(events')].name = EventKind[req[r].op]
              /\ req'[r].pc = "done"
              /\ req'[r].status \in {200, 201}

(***************************************************************************)
(* C21.  A failed audit write leaves the committed mutation in the store   *)
(* and is not surfaced: the handler goes on exactly as after a written     *)
(* entry, and its next step emits the event of its operation and answers   *)
(* success.  Stated for concurrent createCategory, updateCategory and      *)
(* deleteNominee requests.                                                 *)
(***************************************************************************)
C21_AuditFailureNotSurfaced == [][C21_Step]_vars

\* A category was created, announced and answered 201 with no audit entry.
C21_Witness ==
    \E r \in Slots :
        /\ req[r].op = "createCategory"
        /\ Succeeded(r)
        /\ req[r].categoryId \in DOMAIN categories
        /\ audit_log = <<>>
        /\ \E i \in 1..Len(events) :
              events[i].name = "category-created" /\ events[i].categoryId = req[r].categoryId

\* The change request r asked for is in the store.
Committed(r) ==
    LET c == req[r].categoryId
        n == req[r].nomineeId
    IN  CASE req[r].op = "createCategory" ->
                c \in DOMAIN categories \ DOMAIN req[r].atIssue.categories
          [] req[r].op = "updateCategory" ->
                req[r].title # Undefined => categories[c].title = req[r].title
          [] req[r].op = "deleteCategory" ->
                /\ ~categories[c].is_active
                /\ \A i \in 1..Len(nominees) : nominees[i].category_id = c => ~nominees[i].is_active
          [] req[r].op = "updateNominee" ->
                req[r].title # Undefined => nominees[n].name = req[r].title
          [] req[r].op = "deleteNominee" ->
                ~nominees[n].is_active /\ \A v \in votes : v.nominee_id # n
          [] req[r].op = "uploadNomineePhoto" -> nominees[n].photo_url = PhotoUrl(req[r].file)
          [] req[r].op = "deleteNomineePhoto" -> nominees[n].photo_url = NoFile
          [] req[r].op = "castVote" ->
                \E v \in votes : /\ v.session_id = req[r].sessionId
                                 /\ v.category_id = c
                                 /\ v.nominee_id = n
          [] OTHER -> FALSE

C22_Step ==
    \A r \in Slots :
        req'[r] # req[r] =>
            /\ audit_log' # audit_log => Committed(r) /\ EmittedSince(r) = 0
            /\ events' # events =>
                  /\ Committed(r)
                  /\ req[r].op # "castVote" => AuditedSince(r) = 1

(***************************************************************************)
(* C22.  Within a mutation request the store is written first, then the    *)
(* audit entry, then the event: a step that writes an audit entry or       *)
(* emits an event is taken with the request's change already in the store, *)
(* the audit entry before any event and the event after the audit entry.   *)
(* Stated for requests issued one after another (castVote writes no audit  *)
(* entry).                                                                 *)
(***************************************************************************)
C22_CommitAuditBroadcast == [][C22_Step]_vars

\* An update of a category's title and the removal of a nominee have both
\* been audited and announced.
C22_Witness ==
    /\ Len(audit_log) = 2
    /\ Len(events) = 2
    /\ {audit_log[i].action : i \in 1..2} = {"UPDATE", "DELETE"}
    /\ {events[i].name : i \in 1..2} = {"category-updated", "nominee-deleted"}
    /\ \E i \in 1..2 : events[i].data = NewTitle

\* The positions of the category-updated events of category c in the event log.
UpdatedEvents(c) ==
    {i \in 1..Len(events) : events[i].name = "category-updated" /\ events[i].categoryId = c}

\* No update has written its row without having emitted its event yet.
UpdatesAnnounced == \A r \in Slots : req[r].pc \notin {"uc_audit", "uc_emit"}

(***************************************************************************)
(* C23.  The category-updated events of one category are emitted in the    *)
(* order in which the updates were committed.  Every update here writes a  *)
(* title, so with every committed update announced the last event of the   *)
(* category carries the title of the last commit, which is the title the   *)
(* row holds.                                                              *)
(***************************************************************************)
C23_EventsInCommitOrder ==
    \A c \in DOMAIN categories :
        UpdatesAnnounced /\ UpdatedEvents(c) # {} =>
            LET last == CHOOSE i \in UpdatedEvents(c) : \A j \in UpdatedEvents(c) : j <= i
            IN  events[last].data = categories[c].title

(***************************************************************************)
(* What the specification says of the connection registry and of the       *)
(* broadcast hub.                                                          *)
(***************************************************************************)
\* What jwt.verify would make of a token with the server's secret: only the
\* unexpired token signed for an administrator decodes to role admin.
VerifiedAdmin(token) == token = "jwt(role: admin)"

\* The browser whose SocketService holds socket s.
Owner(s) == CHOOSE c \in Clients : clients[c].socket = s

\* The server has handled what socket s sent on connecting.
Handled(s) == s \in io.sockets /\ \A m \in joins : m.socket # s

C24_Members ==
    \A s \in io.adminRoom :
        /\ s \in io.sockets
        /\ VerifiedAdmin(clients[Owner(s)].storage.token)

\* A join-admin whose token is not a verified admin token is handled: the
\* rooms stay as they were and nothing is sent back or changed at the browser.
C24_Step ==
    \A m \in joins :
        m \notin joins' /\ m.socket \in io'.sockets /\ ~VerifiedAdmin(m.token) =>
            io' = io /\ wire' = wire /\ clients' = clients

(***************************************************************************)
(* C24.  A socket is in the admin room only if its browser presented a     *)
(* verified admin token; a join-admin with an expired token, or with a     *)
(* user's token next to stored user data that say role admin, leaves the   *)
(* socket outside the room and answers nothing, and the socket goes on     *)
(* receiving the broadcasts.  No handler emits to the admin room only.     *)
(***************************************************************************)
C24_AdminRoomNeedsVerifiedToken == []C24_Members /\ [][C24_Step]_vars

\* A browser whose stored role is admin and whose token is not a verified
\* admin token was refused, and has since been sent a broadcast.
C24_Witness ==
    \E c \in Clients :
        /\ Handled(clients[c].socket)
        /\ clients[c].storage.role = "admin"
        /\ ~VerifiedAdmin(clients[c].storage.token)
        /\ clients[c].socket \notin io.adminRoom
        /\ wire[clients[c].socket].sent # <<>>

(***************************************************************************)
(* C25.  A connected socket whose join-admin carried a valid, unexpired    *)
(* admin token and has been handled is in the admin room.                  *)
(***************************************************************************)
C25_ValidAdminJoins ==
    \A c \in Clients :
        /\ Handled(clients[c].socket)
        /\ clients[c].storage.role = "admin"
        /\ VerifiedAdmin(clients[c].storage.token)
        => clients[c].socket \in io.adminRoom

C26_Rooms == io.adminRoom \subseteq io.sockets /\ DOMAIN wire = io.sockets

C26_Step ==
    /\ \A c \in Clients :
          /\ clients[c].socket # NoSocket /\ clients'[c].socket = NoSocket =>
                /\ clients[c].socket \notin io'.sockets \cup io'.adminRoom \cup DOMAIN wire'
                /\ votes' = votes
                /\ audit_log' = audit_log
          /\ clients[c].socket = NoSocket /\ clients'[c].socket # NoSocket =>
                /\ clients'[c].socket > io.lastId
                /\ clients'[c].socket \notin io'.adminRoom
                /\ wire'[clients'[c].socket].sent = <<>>
    /\ \A s \in io'.adminRoom \ io.adminRoom :
          \E m \in joins \ joins' : m.socket = s /\ VerifiedAdmin(m.token)

(***************************************************************************)
(* C26.  A disconnect takes the socket out of the server's sockets and     *)
(* rooms and leaves the votes and the audit log as they were; the socket   *)
(* of a reconnection has a new id, is in no room, and enters the admin     *)
(* room only on a join-admin of its own with a verified admin token.       *)
(***************************************************************************)
C26_DisconnectPurges == []C26_Rooms /\ [][C26_Step]_vars

\* Three connections were made by two browsers, so one of them has
\* reconnected; the audit entry and the vote written before are in place.
C26_Witness ==
    /\ io.lastId = 3
    /\ \A c \in Clients : clients[c].socket \in io.sockets
    /\ \E c \in Clients : wire[clients[c].socket].since > 0
    /\ audit_log # <<>>
    /\ votes # {}
    /\ io.adminRoom = {}

C27_Sent ==
    \A s \in io.sockets :
        wire[s].sent = SubSeq(events, wire[s].since + 1, Len(events))

C27_Received ==
    \A c \in Clients :
        clients[c].socket # NoSocket => clients[c].received <= Len(wire[clients[c].socket].sent)

\* The listeners run on the next event sent to the socket, and on nothing else.
C27_Step ==
    \A c \in Clients :
        clients'[c].categories # clients[c].categories \/ clients'[c].received # clients[c].received
        => /\ clients[c].socket # NoSocket
           /\ clients'[c].received = clients[c].received + 1
           /\ clients'[c].categories =
                 Merge(clients[c].categories, wire[clients[c].socket].sent[clients'[c].received])
        \/ clients'[c].socket # clients[c].socket

(***************************************************************************)
(* C27.  What has been sent to a connected socket is the events emitted    *)
(* since its connection was made, each once and in order, and none of the  *)
(* events emitted before; the browser's listeners run once on each, in     *)
(* that order.                                                             *)
(***************************************************************************)
C27_OncePerConnectionNoReplay == []C27_Sent /\ []C27_Received /\ [][C27_Step]_vars

\* Two events were emitted; one browser was connected for both and has
\* received both, the other connected between them and was sent the second.
C27_Witness ==
    /\ Len(events) = 2
    /\ \E c, d \in Clients :
          /\ clients[c].socket # NoSocket /\ clients[d].socket # NoSocket
          /\ wire[clients[c].socket].since = 0
          /\ clients[c].received = 2
          /\ wire[clients[d].socket].since = 1
          /\ wire[clients[d].socket].sent = <<events[2]>>

(***************************************************************************)
(* What the specification says of the page's merge of events.              *)
(***************************************************************************)
\* The change events the page merges.
ChangeEvents ==
    {"category-created", "category-updated", "category-deleted",
     "nominee-added", "nominee-updated", "nominee-deleted"}

(***************************************************************************)
(* C28.  The merge of a change event is idempotent: on every view the      *)
(* page can hold and every change event emitted, merging the event twice   *)
(* gives the view that merging it once gives.                              *)
(***************************************************************************)
C28_MergeIdempotent ==
    \A c \in Clients, i \in 1..Len(events) :
        events[i].name \in ChangeEvents =>
            Merge(Merge(clients[c].categories, events[i]), events[i])
                = Merge(clients[c].categories, events[i])

(***************************************************************************)
(* What the specification says of the rows a request may touch.            *)
(***************************************************************************)
\* Row `new` is row `old` but for the listed fields.
SameBut(old, new, fields) ==
    /\ DOMAIN new = DOMAIN old
    /\ \A f \in DOMAIN old \ fields : new[f] = old[f]

C29_Step ==
    /\ DOMAIN categories \subseteq DOMAIN categories'
    /\ Len(nominees') >= Len(nominees)
    /\ \A i \in 1..Len(nominees) : nominees'[i].category_id = nominees[i].category_id
    /\ \A r \in Slots :
          req[r].op \in {"deleteCategory", "deleteNominee"} /\ req'[r] # req[r] =>
              /\ \A c \in DOMAIN categories : SameBut(categories[c], categories'[c], {"is_active"})
              /\ \A i \in 1..Len(nominees) : SameBut(nominees[i], nominees'[i], {"is_active"})
              /\ \A c \in DOMAIN categories : categories'[c].is_active => categories[c].is_active
              /\ \A i \in 1..Len(nominees) : nominees'[i].is_active => nominees[i].is_active

(***************************************************************************)
(* C29.  No step removes a category row or a nominee row or moves a row to *)
(* another id: the stored category ids and the nominee rows only grow in   *)
(* number, a nominee keeps its category, and the steps of deleteCategory   *)
(* and deleteNominee change nothing in those rows but the active flag,     *)
(* which they only clear.                                                  *)
(***************************************************************************)
C29_RowsAreNeverRemoved == [][C29_Step]_vars

\* A category was created and another one deleted: both rows are stored.
C29_Witness ==
    /\ UnknownCategory \in DOMAIN categories
    /\ \E c \in DOMAIN categories : ~categories[c].is_active
    /\ \E i \in 1..Len(nominees) : ~nominees[i].is_active

(***************************************************************************)
(* C30.  An updateCategory answered with success has changed, in the row   *)
(* of its id, the title if the request supplied one and nothing else (the  *)
(* active flag and is_award are as they were), has changed no other        *)
(* category, no nominee and no vote, and has emitted one category-updated  *)
(* event that carries the id and the supplied title, or the id alone.      *)
(* Stated for requests issued one after another; the updated_at column,    *)
(* which every update sets and every event carries, is not in the rows of  *)
(* the model.                                                              *)
(***************************************************************************)
C30_UpdateChangesOnlySupplied ==
    \A r \in Slots :
        req[r].op = "updateCategory" /\ Succeeded(r) =>
            LET id == req[r].categoryId
                was == req[r].atIssue.categories
                supplied == IF req[r].title # Undefined THEN {"title"} ELSE {}
                e == events[Len(events)]
            IN  /\ DOMAIN categories = DOMAIN was
                /\ \A c \in DOMAIN was \ {id} : categories[c] = was[c]
                /\ SameBut(was[id], categories[id], supplied)
                /\ req[r].title # Undefined => categories[id].title = req[r].title
                /\ nominees = req[r].atIssue.nominees
                /\ votes = req[r].atIssue.votes
                /\ EmittedSince(r) = 1
                /\ e = [Event("category-updated", id, 0, "") EXCEPT !.data = req[r].title]

\* The title of a category was replaced by the title of the request.
C30_Witness ==
    \E r \in Slots :
        /\ req[r].op = "updateCategory"
        /\ Succeeded(r)
        /\ req[r].title = NewTitle
        /\ categories[req[r].categoryId].title = NewTitle
        /\ req[r].atIssue.categories[req[r].categoryId].title # NewTitle

(***************************************************************************)
(* What the specification says of an acknowledged vote.                    *)
(***************************************************************************)
\* The votes table holds the ballot request r asked for.
BallotStored(r) ==
    \E v \in votes : /\ v.session_id = req[r].sessionId
                     /\ v.category_id = req[r].categoryId
                     /\ v.nominee_id = req[r].nomineeId

C34_Step ==
    \A r \in Slots :
        req[r].pc = "cv_emit" /\ req'[r].pc = "done" /\ req'[r].status = 200 => BallotStored(r)

(***************************************************************************)
(* C34.  When castVote emits vote-cast and answers success, the votes      *)
(* table holds a row of the session and category that names the nominee,   *)
(* whatever castVote, deleteNominee and deleteCategory requests are        *)
(* handled at the same time.                                               *)
(***************************************************************************)
C34_AcknowledgedVoteIsStored == [][C34_Step]_vars

(***************************************************************************)
(* C35.  A mutation request that has been answered with success has its    *)
(* event in the event log already, as the last event emitted; a request    *)
(* answered with an error that left the store as it found it has emitted   *)
(* nothing.  Stated for requests issued one after another.                 *)
(***************************************************************************)
C35_EventBeforeResponse ==
    \A r \in Slots :
        req[r].op \in Mutations /\ Done(r) =>
            /\ Succeeded(r) =>
                  /\ EmittedSince(r) >= 1
                  /\ events[Len(events)].name = EventKind[req[r].op]
            /\ ~Succeeded(r) /\ StoreAsAtIssue(r) => EmittedSince(r) = 0

\* A first vote was answered 200 with its vote-cast event published.
C35_Witness ==
    \E r \in Slots :
        /\ req[r].op = "castVote"
        /\ Succeeded(r)
        /\ events[Len(events)] =
              Event("vote-cast", req[r].categoryId, req[r].nomineeId, req[r].sessionId)

C36_Step ==
    /\ \A c \in DOMAIN categories : ~categories[c].is_active => ~categories'[c].is_active
    /\ \A i \in 1..Len(nominees) : ~nominees[i].is_active => ~nominees'[i].is_active

(***************************************************************************)
(* C36.  Inactive is absorbing: no step of any request sets the active     *)
(* flag of a soft-deleted category or nominee again.                       *)
(***************************************************************************)
C36_InactiveIsAbsorbing == [][C36_Step]_vars

\* A soft-deleted nominee was renamed by an updateNominee answered with
\* success, and is inactive still.
C36_Witness ==
    \E r \in Slots :
        /\ req[r].op = "updateNominee"
        /\ Succeeded(r)
        /\ ~req[r].atIssue.nominees[req[r].nomineeId].is_active
        /\ nominees[req[r].nomineeId].name = NewName
        /\ ~nominees[req[r].nomineeId].is_active

(***************************************************************************)
(* C37.  Every stored vote for an active nominee of an active category is  *)
(* counted by getVoteStats: the category and the nominee are in the        *)
(* statistics and the nominee's count is at least one.                     *)
(***************************************************************************)
C37_AcceptedVotesAreCounted ==
    \A v \in votes :
        ActiveCategory(v.category_id) /\ ActiveNomineeOf(v.nominee_id, v.category_id) =>
            /\ v.category_id \in DOMAIN GetVoteStats
            /\ v.nominee_id \in DOMAIN GetVoteStats[v.category_id]
            /\ GetVoteStats[v.category_id][v.nominee_id] >= 1

(***************************************************************************)
(* What the specification says of the nominee photos.                      *)
(***************************************************************************)
\* The active nominees whose photo_url names a file that is not in the
\* uploads directory.
Dangling ==
    {i \in 1..Len(nominees) :
        /\ nominees[i].is_active
        /\ nominees[i].photo_url # NoFile
        /\ Basename(nominees[i].photo_url) \notin files}

(***************************************************************************)
(* C38.  With every photo request answered, the photo_url of an active     *)
(* nominee names a file that exists, also after requests whose store       *)
(* statement failed and uploads handled at the same time.                  *)
(***************************************************************************)
C38_PhotoNeverDangles == InFlight = {} => Dangling = {}

(***************************************************************************)
(* What the specification says of the pages that follow the events.        *)
(***************************************************************************)
\* The nominees with id n in the view of client c after the step.
ShownAfter(c, n) ==
    {row \in UNION {{cat.nominees[i] : i \in 1..Len(cat.nominees)} :
                        cat \in {clients'[c].categories[k] : k \in 1..Len(clients'[c].categories)}} :
        row.id = n}

\* Client c takes the next event sent to its socket in this step.
Applies(c) ==
    /\ clients[c].socket # NoSocket
    /\ clients'[c].received = clients[c].received + 1

(***************************************************************************)
(* C33.  The id of a nominee-deleted or nominee-updated event is the id    *)
(* under which the page holds the nominee: once the page has applied       *)
(* nominee-deleted for n, n is not in its view, and once it has applied    *)
(* nominee-updated for n, its view shows n with the changed name.          *)
(***************************************************************************)
C33_Step ==
    \A c \in Clients :
        Applies(c) =>
            LET e == wire[clients[c].socket].sent[clients'[c].received]
            IN  /\ e.name = "nominee-deleted" => ShownAfter(c, e.nomineeId) = {}
                /\ e.name = "nominee-updated" /\ e.data # Undefined =>
                       \A row \in ShownAfter(c, e.nomineeId) : row.name = e.data

C33_EventIdIsViewId == [][C33_Step]_vars

(***************************************************************************)
(* What the specification says of the voting page.                         *)
(***************************************************************************)
\* Client c has been connected since before the first event, has taken every
\* event emitted, and none of its requests for the tallies is unanswered.
Settled(c) ==
    /\ InFlight = {}
    /\ clients[c].mounted
    /\ clients[c].socket # NoSocket
    /\ wire[clients[c].socket].since = 0
    /\ clients[c].received = Len(events)
    /\ clients[c].asked = 0
    /\ clients[c].replies = {}

(***************************************************************************)
(* C32.  The tallies of a page do not drift: with every vote committed,    *)
(* every vote-cast event delivered and every answer to a refetch received, *)
(* in whatever order the answers arrived, voteStats is the tally of the    *)
(* store.                                                                  *)
(***************************************************************************)
C32_TalliesDoNotDrift ==
    \A c \in Clients : Settled(c) => clients[c].voteStats = GetVoteStats

\* The vote-cast events client c has taken.
VoteCastSeen(c) ==
    IF clients[c].socket = NoSocket THEN {}
    ELSE {e \in {wire[clients[c].socket].sent[k] : k \in 1..clients[c].received} :
             e.name = "vote-cast"}

(***************************************************************************)
(* C40.  No page learns the id of another session from the events it       *)
(* receives: every vote-cast event a page has taken carries the session id *)
(* of that page.                                                           *)
(***************************************************************************)
C40_NoForeignSessionId ==
    \A c \in Clients : \A e \in VoteCastSeen(c) : e.sessionId = getSessionId(c)

\* Client c has been connected since before the first event, has taken every
\* event emitted, and has applied the answer to its fetch of the categories.
Caught(c) ==
    /\ InFlight = {}
    /\ clients[c].socket # NoSocket
    /\ wire[clients[c].socket].since = 0
    /\ clients[c].received = Len(events)
    /\ clients[c].page = {}
    /\ ~clients[c].loading

\* The places in the view of client c that show category id.
ShownAt(c, id) == {k \in 1..Len(clients[c].categories) : clients[c].categories[k].id = id}

(***************************************************************************)
(* C31.  The category view of a page agrees with the store when the fetch  *)
(* races with the change events: with the answer of getCategories and      *)
(* every event emitted applied, in whatever order they arrived, the view   *)
(* holds every active category exactly once and no deleted one.            *)
(***************************************************************************)
C31_ViewAgreesWithStore ==
    \A c \in Clients :
        Caught(c) =>
            \A id \in DOMAIN categories \cup {UnknownCategory} :
                Cardinality(ShownAt(c, id)) = IF ActiveCategory(id) THEN 1 ELSE 0

(***************************************************************************)
(* What the specification says of the SocketService.                       *)
(***************************************************************************)
\* The callbacks of client c ran more than once on the event at some place.
InvokedTwice(c) ==
    \E i, j \in 1..Len(clients[c].invoked) : i # j /\ clients[c].invoked[i] = clients[c].invoked[j]

(***************************************************************************)
(* C39.  After any calls of connect() and disconnect(), also connect()     *)
(* called again before the earlier attempt has completed, at most one      *)
(* socket of the service forwards server events to the listener registry,  *)
(* and a registered callback runs once on each event.                      *)
(***************************************************************************)
C39_OneForwardingSocket ==
    \A c \in Clients :
        /\ Cardinality(DOMAIN clients[c].read) <= 1
        /\ ~InvokedTwice(c)

====
